---- MODULE Spec2Model ----
(***************************************************************************)
(* Verification model of the auction / DKP core of discord-dkp-bot:        *)
(*   - the Auction aggregate (internal/auction/auction.go),                *)
(*   - the auction Manager (coordinator) and the dkp Manager,              *)
(*   - the Postgres event store (events table, unique (aggregate_id,       *)
(*     version) index),                                                    *)
(*   - the leader-gated serving loop of cmd/dkpbot (run / startBot).       *)
(* Every command of a Manager is split into the steps between which other  *)
(* goroutines can run: each lock section and each store call is one step.  *)
(***************************************************************************)
EXTENDS Integers, Sequences, FiniteSets, TLC

VARIABLES
    auctions,   \* Manager.auctions: the ids that are keys of the live table
    heap,       \* the *Auction objects, by id (NoAuction where none exists)
    store,      \* rows of the events table
    players,    \* rows of the players table, by discord id
    cmds,       \* the in-flight Manager calls (one record per goroutine)
    phase,      \* position of the serving process: "recovered" | "serving"
    recovery,   \* what the last RecoverOpenAuctions returned
    restarts,   \* number of process restarts so far
    now,        \* the clock (clock.Clock.Now / the database's now())
    agg,        \* the aggregate driven directly (as the package tests do)
    dkpOps,     \* number of dkp Manager calls issued so far
    lease,      \* the Kubernetes Lease: its holder, or NoReplica
    replicas,   \* per replica: position in run(), gateway, ready flag, table
    health,     \* health.Handler: ready flag, checkers, the /readyz request
    db,         \* the auctions table under each adapter, and the last results
    locks       \* the coordinator's table lock and the aggregates' locks

vars == <<auctions, heap, store, players, cmds, phase, recovery, restarts,
          now, agg, dkpOps, lease, replicas, health, db, locks>>

----------------------------------------------------------------------------
(* Bounds of the model.                                                    *)

MaxAmount == 2
MaxRestarts == 1
MaxTime == 2
MaxDkpOps == 3
MaxVersion == 3
MaxTx == 2

\* The id StartAuction reads off the clock (auction-<UnixNano>): the calls
\* of the model all contend for one auction.
AuctionIds == {1}
\* Two handler goroutines run Manager calls side by side.
Procs == {1, 2}

\* A sync.RWMutex: the goroutine that holds it for writing (0 for none) and
\* the goroutines that hold it for reading.
Unlocked == [w |-> 0, r |-> {}]

\* No lock is held: Manager.mu, the mu of the aggregate of each id, and the
\* mu of the aggregate a StartAuction call has built and not yet shared.
NoLocks ==
    [mu |-> Unlocked,
     a |-> [id \in AuctionIds |-> Unlocked],
     new |-> [p \in Procs |-> Unlocked]]
\* What the coordinator is offered: bid amounts and minimum bids.
Amounts == 1..MaxAmount
MinBids == {1, 2}

\* Discord ids 1 and 2 are registered players, 3 is nobody.
DiscordIds == {1, 2, 3}
\* players.id is a server generated uuid; one per discord id.
PlayerID(d) == 100 + d

ZeroTime == 0
NoAuction == [ID |-> 0]
NoBid == [PlayerID |-> 0, Amount |-> 0, Time |-> ZeroTime]

----------------------------------------------------------------------------
(* Event types (event.Type).                                               *)

AuctionStarted == "auction.started"
AuctionBidPlaced == "auction.bid_placed"
AuctionClosed == "auction.closed"
AuctionCancelled == "auction.cancelled"
DKPAwarded == "dkp.awarded"
DKPDeducted == "dkp.deducted"
PlayerRegistered == "player.registered"

\* Errors of the auction package and of the Managers.
ErrAuctionClosed == "auction is closed"
ErrBidTooLow == "bid is below minimum"
ErrSelfOutbid == "you are already the highest bidder"
ErrInsufficientDKP == "insufficient DKP"
ErrNotFound == "auction not found"
ErrNotRegistered == "player not registered"
ErrPersist == "persisting auction started events"
Ok == "ok"

----------------------------------------------------------------------------
(* The Auction aggregate.                                                  *)

\* Auction.recordEvent: bump the version, buffer one event.
recordEvent(a, t, data) ==
    [a EXCEPT !.Version = a.Version + 1,
              !.events = Append(a.events,
                  [AggregateID |-> a.ID, Type |-> t, Data |-> data,
                   Version |-> a.Version + 1, CreatedAt |-> ZeroTime])]

\* auction.New
New(id, itemName, startedBy, minBid) ==
    recordEvent([ID |-> id, ItemName |-> itemName, StartedBy |-> startedBy,
                 MinBid |-> minBid, Status |-> "open", Bids |-> <<>>,
                 Version |-> 0, events |-> <<>>],
                AuctionStarted,
                [ItemName |-> itemName, StartedBy |-> startedBy,
                 MinBid |-> minBid])

\* Auction.highestBid: the last bid, NoBid for nil.
highestBid(a) ==
    IF Len(a.Bids) = 0 THEN NoBid ELSE a.Bids[Len(a.Bids)]

\* Auction.PlaceBid's guards with the status check left out: a faulty
\* variant, which terminal closure must not survive.
PlaceBidErrNoStatus(a, playerID, amount, playerDKP) ==
    IF amount < a.MinBid THEN ErrBidTooLow
    ELSE IF amount > playerDKP THEN ErrInsufficientDKP
    ELSE IF highestBid(a) # NoBid /\ highestBid(a).PlayerID = playerID
         THEN ErrSelfOutbid
    ELSE IF highestBid(a) # NoBid /\ amount <= highestBid(a).Amount
         THEN ErrBidTooLow
    ELSE Ok

\* Auction.PlaceBid's guards with the outbid check left out: a faulty
\* variant, which bid monotonicity must not survive.
PlaceBidErrNoOutbid(a, playerID, amount, playerDKP) ==
    IF a.Status # "open" THEN ErrAuctionClosed
    ELSE IF amount < a.MinBid THEN ErrBidTooLow
    ELSE IF amount > playerDKP THEN ErrInsufficientDKP
    ELSE IF highestBid(a) # NoBid /\ highestBid(a).PlayerID = playerID
         THEN ErrSelfOutbid
    ELSE Ok

\* Auction.PlaceBid's guards with the balance check left out: a faulty
\* variant, which the acceptance rule must not survive.
PlaceBidErrNoBalance(a, playerID, amount, playerDKP) ==
    IF a.Status # "open" THEN ErrAuctionClosed
    ELSE IF amount < a.MinBid THEN ErrBidTooLow
    ELSE IF highestBid(a) # NoBid /\ highestBid(a).PlayerID = playerID
         THEN ErrSelfOutbid
    ELSE IF highestBid(a) # NoBid /\ amount <= highestBid(a).Amount
         THEN ErrBidTooLow
    ELSE Ok

\* Auction.PlaceBid's guards with the outbid check ahead of the self-outbid
\* check: a faulty variant, which the order of the guards must not survive.
PlaceBidErrOutbidFirst(a, playerID, amount, playerDKP) ==
    IF a.Status # "open" THEN ErrAuctionClosed
    ELSE IF amount < a.MinBid THEN ErrBidTooLow
    ELSE IF amount > playerDKP THEN ErrInsufficientDKP
    ELSE IF highestBid(a) # NoBid /\ amount <= highestBid(a).Amount
         THEN ErrBidTooLow
    ELSE IF highestBid(a) # NoBid /\ highestBid(a).PlayerID = playerID
         THEN ErrSelfOutbid
    ELSE Ok

\* The guards of Auction.PlaceBid, in the order of the code: the error it
\* returns, Ok when the bid is accepted.
PlaceBidErr(a, playerID, amount, playerDKP) ==
    IF a.Status # "open" THEN ErrAuctionClosed
    ELSE IF amount < a.MinBid THEN ErrBidTooLow
    ELSE IF amount > playerDKP THEN ErrInsufficientDKP
    ELSE IF highestBid(a) # NoBid /\ highestBid(a).PlayerID = playerID
         THEN ErrSelfOutbid
    ELSE IF highestBid(a) # NoBid /\ amount <= highestBid(a).Amount
         THEN ErrBidTooLow
    ELSE Ok

\* Auction.PlaceBid recording the bid before the guards on the highest bid
\* are evaluated: a faulty variant, under which a rejected bid leaves its
\* trace in the aggregate.
PlaceBidRecordsFirst(a, playerID, amount, playerDKP, t) ==
    IF PlaceBidErr(a, playerID, amount, playerDKP)
          \in {ErrAuctionClosed, ErrInsufficientDKP}
    THEN a
    ELSE IF PlaceBidErr(a, playerID, amount, playerDKP) = ErrBidTooLow
              /\ amount < a.MinBid
    THEN a
    ELSE recordEvent(
            [a EXCEPT !.Bids = Append(a.Bids,
                [PlayerID |-> playerID, Amount |-> amount, Time |-> t])],
            AuctionBidPlaced,
            [PlayerID |-> playerID, Amount |-> amount])

\* Auction.PlaceBid: the aggregate after the call.
PlaceBid(a, playerID, amount, playerDKP, t) ==
    IF PlaceBidErr(a, playerID, amount, playerDKP) # Ok THEN a
    ELSE recordEvent(
            [a EXCEPT !.Bids = Append(a.Bids,
                [PlayerID |-> playerID, Amount |-> amount, Time |-> t])],
            AuctionBidPlaced,
            [PlayerID |-> playerID, Amount |-> amount])

\* Auction.Close: the error it returns.
CloseErr(a) == IF a.Status # "open" THEN ErrAuctionClosed ELSE Ok

\* Auction.Close awarding the first bid instead of the last: a faulty
\* variant, which the winner rule must not survive.
CloseFirstBid(a) ==
    IF a.Status # "open" THEN a
    ELSE recordEvent([a EXCEPT !.Status = "closed"], AuctionClosed,
            [WinnerID |-> IF Len(a.Bids) = 0 THEN 0 ELSE a.Bids[1].PlayerID,
             Amount |-> IF Len(a.Bids) = 0 THEN 0 ELSE a.Bids[1].Amount])

\* Auction.Close: the aggregate after the call; the closed event carries the
\* highest bid, or the zero values when there is none.
Close(a) ==
    IF CloseErr(a) # Ok THEN a
    ELSE recordEvent([a EXCEPT !.Status = "closed"], AuctionClosed,
            [WinnerID |-> highestBid(a).PlayerID,
             Amount |-> highestBid(a).Amount])

\* Auction.Cancel: the error it returns, Ok for nil.
CancelErr(a) == IF a.Status # "open" THEN ErrAuctionClosed ELSE Ok

\* Auction.Cancel without the status guard: a faulty variant that cancels
\* an auction in any status.
CancelAnyStatus(a) ==
    recordEvent([a EXCEPT !.Status = "canceled"], AuctionCancelled,
                [Empty |-> TRUE])

\* Auction.Cancel: the aggregate after the call.
Cancel(a) ==
    IF a.Status # "open" THEN a
    ELSE recordEvent([a EXCEPT !.Status = "canceled"], AuctionCancelled,
            [Empty |-> TRUE])

\* Auction.PendingEvents: the aggregate with its buffer cleared (the buffer
\* itself, a.events, is what the call returns).
PendingEvents(a) == [a EXCEPT !.events = <<>>]

----------------------------------------------------------------------------
(* Replay.                                                                 *)

\* The zero Auction that Replay starts from.
ZeroAuction ==
    [ID |-> 0, ItemName |-> "", StartedBy |-> "", MinBid |-> 0,
     Status |-> "", Bids |-> <<>>, Version |-> 0, events |-> <<>>]

\* One iteration of Replay's loop with the terminal cases left out: a faulty
\* variant, which recovery must not survive.
ReplayEventKeepsOpen(a, e) ==
    LET b == IF e.Type = AuctionStarted
             THEN [a EXCEPT !.ID = e.AggregateID,
                            !.ItemName = e.Data.ItemName,
                            !.StartedBy = e.Data.StartedBy,
                            !.MinBid = e.Data.MinBid,
                            !.Status = "open"]
             ELSE IF e.Type = AuctionBidPlaced
             THEN [a EXCEPT !.Bids = Append(a.Bids,
                      [PlayerID |-> e.Data.PlayerID,
                       Amount |-> e.Data.Amount,
                       Time |-> e.CreatedAt])]
             ELSE a
    IN  [b EXCEPT !.Version = e.Version]

\* One iteration of Replay's loop: the switch on e.Type, then the version.
ReplayEvent(a, e) ==
    LET b == IF e.Type = AuctionStarted
             THEN [a EXCEPT !.ID = e.AggregateID,
                            !.ItemName = e.Data.ItemName,
                            !.StartedBy = e.Data.StartedBy,
                            !.MinBid = e.Data.MinBid,
                            !.Status = "open"]
             ELSE IF e.Type = AuctionBidPlaced
             THEN [a EXCEPT !.Bids = Append(a.Bids,
                      [PlayerID |-> e.Data.PlayerID,
                       Amount |-> e.Data.Amount,
                       Time |-> e.CreatedAt])]
             ELSE IF e.Type = AuctionClosed
             THEN [a EXCEPT !.Status = "closed"]
             ELSE IF e.Type = AuctionCancelled
             THEN [a EXCEPT !.Status = "canceled"]
             ELSE a
    IN  [b EXCEPT !.Version = e.Version]

RECURSIVE ReplayFrom(_, _)
\* Replay's loop over the events, from aggregate a.
ReplayFrom(a, events) ==
    IF events = <<>> THEN a
    ELSE ReplayFrom(ReplayEvent(a, Head(events)), Tail(events))

\* auction.Replay of a non-empty event sequence (it fails on an empty one).
Replay(events) == ReplayFrom(ZeroAuction, events)

----------------------------------------------------------------------------
(* The event store (events table).                                         *)

\* The rows of one aggregate.
RowsOf(rows, id) == {e \in rows : e.AggregateID = id}

\* idx_events_aggregate_version: an INSERT of the batch hits the unique
\* index when a row with the same (aggregate_id, version) exists.
Conflicts(rows, batch) ==
    \E i \in 1..Len(batch) : \E e \in rows :
        /\ e.AggregateID = batch[i].AggregateID
        /\ e.Version = batch[i].Version

\* EventStore.Append, committed: the rows of the batch, created_at set by
\* the column default now().
Inserted(batch, t) ==
    {[batch[i] EXCEPT !.CreatedAt = t] : i \in 1..Len(batch)}

RECURSIVE SortByVersion(_)
\* ORDER BY version ASC of a set of rows of one aggregate.
SortByVersion(rows) ==
    IF rows = {} THEN <<>>
    ELSE LET first == CHOOSE e \in rows :
                         \A f \in rows : e.Version <= f.Version
         IN  <<first>> \o SortByVersion(rows \ {first})

\* EventStore.Load
Load(rows, id) == SortByVersion(RowsOf(rows, id))

\* EventStore.LoadByType
LoadByType(rows, type) == {e \in rows : e.Type = type}

\* A terminal event of the aggregate is durable.
TerminalDurable(rows, id) ==
    \E e \in RowsOf(rows, id) : e.Type \in {AuctionClosed, AuctionCancelled}

----------------------------------------------------------------------------
(* The auction Manager (coordinator).                                      *)

Idle ==
    [op |-> "none", pc |-> "idle", id |-> 0, discord |-> 0, amount |-> 0,
     player |-> 0, dkp |-> 0, batch |-> <<>>, res |-> "", failed |-> FALSE,
     late |-> FALSE]

\* The call has returned res: what is left of it is what the caller saw
\* (and, for the properties, what its Append did).
Done(c, res) ==
    [Idle EXCEPT !.op = c.op, !.pc = "done", !.id = c.id,
                 !.player = IF res = Ok THEN c.player ELSE 0,
                 !.amount = IF res = Ok THEN c.amount ELSE 0,
                 !.res = res, !.failed = c.failed, !.late = c.late]

\* The handlers are goroutines of one pool: a new call takes the first
\* free one.
Free(p) ==
    /\ cmds[p].pc = "idle"
    /\ \A q \in Procs : q < p => cmds[q].pc # "idle"

AuctionVars == <<auctions, heap, store, cmds>>
OtherVars == <<agg, dkpOps, lease, replicas, health, db, locks>>

\* Manager.StartAuction logging the Append error and going on to the
\* insert: a faulty variant.
StartAuctionAppendLogsError(p, id, minBid, ioerr) ==
    /\ phase = "serving"
    /\ Free(p)
    /\ LET a == New(id, "item", "admin", minBid)
           c == [Idle EXCEPT !.op = "start", !.id = id, !.pc = "insert"]
       IN  IF ioerr \/ Conflicts(store, a.events)
           THEN /\ cmds' = [cmds EXCEPT ![p] = [c EXCEPT !.failed = TRUE]]
                /\ heap' = [heap EXCEPT ![id] = PendingEvents(a)]
                /\ UNCHANGED store
           ELSE /\ store' = store \cup Inserted(a.events, now)
                /\ heap' = [heap EXCEPT ![id] = PendingEvents(a)]
                /\ cmds' = [cmds EXCEPT ![p] = c]
    /\ UNCHANGED <<auctions, players, phase, recovery, restarts, now>>
    /\ UNCHANGED OtherVars

\* Manager.StartAuction up to the Append: the id is read off the clock, the
\* aggregate is created and its buffer is persisted. On error the call
\* returns and the aggregate is dropped.
StartAuctionAppend(p, id, minBid, ioerr) ==
    /\ phase = "serving"
    /\ Free(p)
    /\ LET a == New(id, "item", "admin", minBid)
           c == [Idle EXCEPT !.op = "start", !.id = id]
       IN  IF ioerr \/ Conflicts(store, a.events)
           THEN /\ cmds' = [cmds EXCEPT ![p] =
                                Done([c EXCEPT !.failed = TRUE], ErrPersist)]
                /\ UNCHANGED <<heap, store>>
           ELSE /\ store' = store \cup Inserted(a.events, now)
                /\ heap' = [heap EXCEPT ![id] = PendingEvents(a)]
                /\ cmds' = [cmds EXCEPT ![p] = [c EXCEPT !.pc = "insert"]]
    /\ UNCHANGED <<auctions, players, phase, recovery, restarts, now>>
    /\ UNCHANGED OtherVars

\* Manager.StartAuction: m.auctions[id] = a, return.
StartAuctionInsert(p) ==
    /\ cmds[p].op = "start" /\ cmds[p].pc = "insert"
    /\ auctions' = auctions \cup {cmds[p].id}
    /\ cmds' = [cmds EXCEPT ![p] = Done(cmds[p], Ok)]
    /\ UNCHANGED <<heap, store, players, phase, recovery, restarts, now>>
    /\ UNCHANGED OtherVars

\* Manager.PlaceBid: the lookup in the live table under RLock.
PlaceBidLookup(p, id, discord, amount) ==
    /\ phase = "serving"
    /\ Free(p)
    /\ LET c == [Idle EXCEPT !.op = "bid", !.id = id, !.discord = discord,
                             !.amount = amount,
                             !.late = TerminalDurable(store, id)]
       IN  cmds' = [cmds EXCEPT ![p] =
                IF id \in auctions THEN [c EXCEPT !.pc = "player"]
                ELSE Done(c, ErrNotFound)]
    /\ UNCHANGED <<auctions, heap, store, players, phase, recovery,
                   restarts, now>>
    /\ UNCHANGED OtherVars

\* Manager.PlaceBid going on with a zero player when GetByDiscordID finds
\* no row: a faulty variant.
PlaceBidGetPlayerUnchecked(p, ioerr) ==
    /\ cmds[p].op = "bid" /\ cmds[p].pc = "player"
    /\ cmds' = [cmds EXCEPT ![p] =
          [cmds[p] EXCEPT !.pc = "aggregate",
                          !.player = players[cmds[p].discord].ID,
                          !.dkp = players[cmds[p].discord].DKP]]
    /\ UNCHANGED <<auctions, heap, store, players, phase, recovery,
                   restarts, now>>
    /\ UNCHANGED OtherVars

\* Manager.PlaceBid: players.GetByDiscordID; no row or a failed query is
\* "player not registered".
PlaceBidGetPlayer(p, ioerr) ==
    /\ cmds[p].op = "bid" /\ cmds[p].pc = "player"
    /\ LET c == cmds[p]
           row == players[c.discord]
       IN  cmds' = [cmds EXCEPT ![p] =
                IF ioerr \/ ~row.registered
                THEN Done(c, ErrNotRegistered)
                ELSE [c EXCEPT !.pc = "aggregate", !.player = row.ID,
                               !.dkp = row.DKP]]
    /\ UNCHANGED <<auctions, heap, store, players, phase, recovery,
                   restarts, now>>
    /\ UNCHANGED OtherVars

\* Manager.PlaceBid: a.PlaceBid under the aggregate's lock.
PlaceBidAggregate(p) ==
    /\ cmds[p].op = "bid" /\ cmds[p].pc = "aggregate"
    /\ LET c == cmds[p]
           a == heap[c.id]
           err == PlaceBidErr(a, c.player, c.amount, c.dkp)
       IN  /\ heap' = [heap EXCEPT ![c.id] =
                          PlaceBid(a, c.player, c.amount, c.dkp, now)]
           /\ cmds' = [cmds EXCEPT ![p] =
                  IF err # Ok THEN Done(c, err)
                  ELSE [c EXCEPT !.pc = "drain"]]
    /\ UNCHANGED <<auctions, store, players, phase, recovery, restarts, now>>
    /\ UNCHANGED OtherVars

\* a.PendingEvents() handing out the buffer without clearing it: a faulty
\* variant, under which parallel calls append the same event twice.
DrainPendingKeeps(p) ==
    /\ cmds[p].op \in {"bid", "close"} /\ cmds[p].pc = "drain"
    /\ cmds' = [cmds EXCEPT ![p] = [cmds[p] EXCEPT !.pc = "append",
                                      !.batch = heap[cmds[p].id].events]]
    /\ UNCHANGED <<heap, auctions, store, players, phase, recovery, restarts,
                   now>>
    /\ UNCHANGED OtherVars

\* Manager.PlaceBid / CloseAuction: a.PendingEvents() under the aggregate's
\* lock; the call takes whatever is buffered.
DrainPending(p) ==
    /\ cmds[p].op \in {"bid", "close"} /\ cmds[p].pc = "drain"
    /\ cmds' = [cmds EXCEPT ![p] = [cmds[p] EXCEPT !.pc = "append",
                                      !.batch = heap[cmds[p].id].events]]
    /\ heap' = [heap EXCEPT ![cmds[p].id] = PendingEvents(@)]
    /\ UNCHANGED <<auctions, store, players, phase, recovery, restarts, now>>
    /\ UNCHANGED OtherVars

\* Manager.PlaceBid: events.Append of the drained batch; an error is logged
\* and the call returns nil.
PlaceBidAppend(p, ioerr) ==
    /\ cmds[p].op = "bid" /\ cmds[p].pc = "append"
    /\ LET c == cmds[p]
       IN  IF ioerr \/ Conflicts(store, c.batch)
           THEN /\ cmds' = [cmds EXCEPT ![p] =
                                Done([c EXCEPT !.failed = TRUE], Ok)]
                /\ UNCHANGED store
           ELSE /\ store' = store \cup Inserted(c.batch, now)
                /\ cmds' = [cmds EXCEPT ![p] = Done(c, Ok)]
    /\ UNCHANGED <<auctions, heap, players, phase, recovery, restarts, now>>
    /\ UNCHANGED OtherVars

\* Manager.CloseAuction: the lookup in the live table under RLock.
CloseAuctionLookup(p, id) ==
    /\ phase = "serving"
    /\ Free(p)
    /\ LET c == [Idle EXCEPT !.op = "close", !.id = id,
                             !.late = TerminalDurable(store, id)]
       IN  cmds' = [cmds EXCEPT ![p] =
                IF id \in auctions THEN [c EXCEPT !.pc = "aggregate"]
                ELSE Done(c, ErrNotFound)]
    /\ UNCHANGED <<auctions, heap, store, players, phase, recovery,
                   restarts, now>>
    /\ UNCHANGED OtherVars

\* Manager.CloseAuction: a.Close under the aggregate's lock.
CloseAuctionAggregate(p) ==
    /\ cmds[p].op = "close" /\ cmds[p].pc = "aggregate"
    /\ LET c == cmds[p]
           a == heap[c.id]
       IN  /\ heap' = [heap EXCEPT ![c.id] = Close(a)]
           /\ cmds' = [cmds EXCEPT ![p] =
                  IF CloseErr(a) # Ok THEN Done(c, CloseErr(a))
                  ELSE [c EXCEPT !.pc = "drain"]]
    /\ UNCHANGED <<auctions, store, players, phase, recovery, restarts, now>>
    /\ UNCHANGED OtherVars

\* Manager.CloseAuction: events.Append of the drained batch; an error is
\* logged and the call goes on.
CloseAuctionAppend(p, ioerr) ==
    /\ cmds[p].op = "close" /\ cmds[p].pc = "append"
    /\ LET c == cmds[p]
       IN  IF ioerr \/ Conflicts(store, c.batch)
           THEN /\ cmds' = [cmds EXCEPT ![p] =
                                [c EXCEPT !.pc = "delete", !.failed = TRUE]]
                /\ UNCHANGED store
           ELSE /\ store' = store \cup Inserted(c.batch, now)
                /\ cmds' = [cmds EXCEPT ![p] = [c EXCEPT !.pc = "delete"]]
    /\ UNCHANGED <<auctions, heap, players, phase, recovery, restarts, now>>
    /\ UNCHANGED OtherVars

\* Manager.CloseAuction: delete(m.auctions, auctionID) under Lock, return.
CloseAuctionDelete(p) ==
    /\ cmds[p].op = "close" /\ cmds[p].pc = "delete"
    /\ auctions' = auctions \ {cmds[p].id}
    /\ cmds' = [cmds EXCEPT ![p] = Done(cmds[p], Ok)]
    /\ UNCHANGED <<heap, store, players, phase, recovery, restarts, now>>
    /\ UNCHANGED OtherVars

\* The handler has replied; its goroutine ends.
Return(p) ==
    /\ cmds[p].pc = "done"
    /\ cmds' = [cmds EXCEPT ![p] = Idle]
    /\ UNCHANGED <<auctions, heap, store, players, phase, recovery,
                   restarts, now>>
    /\ UNCHANGED OtherVars

----------------------------------------------------------------------------
(* Process start and recovery.                                             *)

\* The aggregate ids of the auction.started rows (the deduplicated ids of
\* RecoverOpenAuctions).
StartedIds(rows) == {e.AggregateID : e \in LoadByType(rows, AuctionStarted)}

\* Manager.RecoverOpenAuctions: the ids it puts in the live table, given the
\* ids whose Load fails (those are logged and skipped).
RecoverOpenAuctions(rows, failed) ==
    {id \in StartedIds(rows) \ failed :
        Replay(Load(rows, id)).Status = "open"}

\* The process dies (its goroutines and its memory with it) and a new one
\* runs up to the end of RecoverOpenAuctions in startBot. LoadByType failing
\* makes the recovery return (0, err); a failing Load skips that auction.
Restart(loadErr, failed) ==
    /\ restarts < MaxRestarts
    /\ failed \subseteq StartedIds(store)
    /\ loadErr => failed = {}
    /\ restarts' = restarts + 1
    /\ cmds' = [p \in Procs |-> Idle]
    /\ auctions' = IF loadErr THEN {} ELSE RecoverOpenAuctions(store, failed)
    /\ heap' = [id \in AuctionIds |->
                  IF id \in auctions' THEN Replay(Load(store, id))
                  ELSE NoAuction]
    /\ recovery' = [n |-> Cardinality(auctions'), err |-> loadErr,
                    skipped |-> failed]
    /\ phase' = "recovered"
    /\ UNCHANGED <<store, players, now>>
    /\ UNCHANGED OtherVars

\* startBot after the recovery: the gateway is opened, commands arrive.
BotStart ==
    /\ phase = "recovered"
    /\ phase' = "serving"
    /\ UNCHANGED <<auctions, heap, store, players, cmds, recovery, restarts,
                   now>>
    /\ UNCHANGED OtherVars

----------------------------------------------------------------------------
(* The coordinator on the serving process.                                 *)

NoReplica == 0

\* No health.Handler is modelled.
NoHandler == [ready |-> FALSE]

\* The two store adapters, and the auctions table of each before any call.
Adapters == {"sqlx", "ent"}
NoTables == [rows |-> [x \in Adapters |-> {}],
             out |-> [x \in Adapters |-> ""]]

InitOther ==
    /\ agg = NoAuction
    /\ dkpOps = 0
    /\ lease = NoReplica
    /\ replicas = <<>>
    /\ health = NoHandler
    /\ db = NoTables
    /\ locks = NoLocks

Init ==
    /\ auctions = {}
    /\ heap = [id \in AuctionIds |-> NoAuction]
    /\ store = {}
    /\ players = [d \in DiscordIds |->
                    [registered |-> d \in {1, 2}, ID |-> PlayerID(d),
                     DKP |-> IF d = 1 THEN MaxAmount ELSE MaxAmount - 1]]
    /\ cmds = [p \in Procs |-> Idle]
    /\ phase = "serving"
    /\ recovery = [n |-> 0, err |-> FALSE, skipped |-> {}]
    /\ restarts = 0
    /\ now = 1
    /\ InitOther

\* Concurrent Manager calls on the serving process, and its restarts.
Next ==
    \/ \E p \in Procs, id \in AuctionIds, minBid \in MinBids,
          ioerr \in BOOLEAN : StartAuctionAppend(p, id, minBid, ioerr)
    \/ \E p \in Procs : StartAuctionInsert(p)
    \/ \E p \in Procs, id \in AuctionIds, d \in DiscordIds,
          amount \in Amounts : PlaceBidLookup(p, id, d, amount)
    \/ \E p \in Procs, ioerr \in BOOLEAN : PlaceBidGetPlayer(p, ioerr)
    \/ \E p \in Procs : PlaceBidAggregate(p)
    \/ \E p \in Procs : DrainPending(p)
    \/ \E p \in Procs, ioerr \in BOOLEAN : PlaceBidAppend(p, ioerr)
    \/ \E p \in Procs, id \in AuctionIds : CloseAuctionLookup(p, id)
    \/ \E p \in Procs : CloseAuctionAggregate(p)
    \/ \E p \in Procs, ioerr \in BOOLEAN : CloseAuctionAppend(p, ioerr)
    \/ \E p \in Procs : CloseAuctionDelete(p)
    \/ \E p \in Procs : Return(p)
    \/ \E loadErr \in BOOLEAN, failed \in SUBSET AuctionIds :
          Restart(loadErr, failed)
    \/ BotStart

Spec == Init /\ [][Next]_vars

\* No Manager call is in flight.
Quiescent == \A p \in Procs : cmds[p].pc \in {"idle", "done"}

----------------------------------------------------------------------------
(* Properties of the coordinator and the event log.                        *)

\* The (bidder, amount) pairs of a sequence of bids or of bid events.
BidPairs(bids) ==
    [i \in 1..Len(bids) |->
        [PlayerID |-> bids[i].PlayerID, Amount |-> bids[i].Amount]]

IsBidPlaced(e) == e.Type = AuctionBidPlaced
EventData(e) == e.Data

\* The auction.bid_placed events stored for an aggregate, in ascending
\* version, as (bidder, amount) pairs.
StoredBids(id) ==
    LET evs == SelectSeq(Load(store, id), IsBidPlaced)
    IN  BidPairs([i \in 1..Len(evs) |-> EventData(evs[i])])

\* The versions stored for an aggregate.
StoredVersions(id) == {e.Version : e \in RowsOf(store, id)}

StrictlyIncreasing(pairs) ==
    \A i \in 1..Len(pairs) - 1 : pairs[i].Amount < pairs[i + 1].Amount

IsPrefix(s, t) ==
    /\ Len(s) <= Len(t)
    /\ \A i \in 1..Len(s) : s[i] = t[i]

\* C1: once all PlaceBid calls on an auction have returned, the bid events
\* stored for it, in ascending version, are exactly the aggregate's
\* in-memory Bids (same bidders, same amounts, same order), whatever the
\* Appends did.
C1_PersistedEqualsInMemory ==
    \A id \in AuctionIds :
        (Quiescent /\ heap[id] # NoAuction)
            => StoredBids(id) = BidPairs(heap[id].Bids)

\* C2: a PlaceBid whose Append failed does not return success, and the bid
\* it placed is no longer in the aggregate (the mutation is rolled back).
C2_FailedAppendRollsBack ==
    \A p \in Procs :
        (cmds[p].pc = "done" /\ cmds[p].op = "bid" /\ cmds[p].failed)
            => /\ cmds[p].res # Ok
               /\ \A i \in 1..Len(heap[cmds[p].id].Bids) :
                     ~ /\ heap[cmds[p].id].Bids[i].PlayerID = cmds[p].player
                       /\ heap[cmds[p].id].Bids[i].Amount = cmds[p].amount

\* C3: in every reachable state of the event log the versions stored for
\* an auction are exactly 1..N.
C3_VersionsContiguous ==
    \A id \in AuctionIds :
        StoredVersions(id) = 1..Cardinality(RowsOf(store, id))

C6_NoAppendAfterTerminal ==
    [][\A id \in AuctionIds :
          TerminalDurable(store, id) => RowsOf(store', id) = RowsOf(store, id)
      ]_vars

\* Amounts strictly increase, in every stored stream and in every aggregate.
BidsIncrease ==
    \A id \in AuctionIds :
        /\ StrictlyIncreasing(StoredBids(id))
        /\ heap[id] # NoAuction => StrictlyIncreasing(heap[id].Bids)

\* Within one life of the process an aggregate's Bids only grows at its end.
BidsAppendOnly ==
    restarts' = restarts =>
        \A id \in AuctionIds :
            (heap[id] # NoAuction /\ heap'[id] # NoAuction)
                => IsPrefix(heap[id].Bids, heap'[id].Bids)

----------------------------------------------------------------------------
(* Recovery.                                                               *)

\* The log holds an auction.started event and no terminal event for id.
OpenInLog(id) ==
    /\ \E e \in RowsOf(store, id) : e.Type = AuctionStarted
    /\ ~TerminalDurable(store, id)

\* The recovered aggregate is what its stream says: open, the stored bids
\* in version order, the version of the last stored event.
RecoveredState(id) ==
    /\ heap[id] # NoAuction
    /\ heap[id].ID = id
    /\ heap[id].Status = "open"
    /\ BidPairs(heap[id].Bids) = StoredBids(id)
    /\ \A v \in StoredVersions(id) : v <= heap[id].Version
    /\ heap[id].Version \in StoredVersions(id)
    /\ heap[id].events = <<>>

----------------------------------------------------------------------------
(* The dkp Manager and the players table.                                  *)

ErrCreate == "creating player"
ErrUpdate == "updating DKP"

DkpVars == <<auctions, heap, phase, recovery, restarts, now, agg, lease,
             replicas, health, db, locks>>

\* The discord id of the players row with this id, 0 when there is none.
RowWithID(playerID) ==
    IF \E d \in DiscordIds : players[d].registered /\ players[d].ID = playerID
    THEN CHOOSE d \in DiscordIds :
            players[d].registered /\ players[d].ID = playerID
    ELSE 0

\* Manager.RegisterPlayer: players.Create. The INSERT fails on the unique
\* discord_id (or on a fault) and the call returns the error.
RegisterCreate(p, d, ioerr) ==
    /\ Free(p)
    /\ dkpOps < MaxDkpOps
    /\ dkpOps' = dkpOps + 1
    /\ LET c == [Idle EXCEPT !.op = "register", !.discord = d]
       IN  IF ioerr \/ players[d].registered
           THEN /\ cmds' = [cmds EXCEPT ![p] = Done(c, ErrCreate)]
                /\ UNCHANGED players
           ELSE /\ players' = [players EXCEPT ![d] =
                      [registered |-> TRUE, ID |-> PlayerID(d), DKP |-> 0]]
                /\ cmds' = [cmds EXCEPT ![p] =
                      [c EXCEPT !.pc = "append", !.player = PlayerID(d)]]
    /\ UNCHANGED store
    /\ UNCHANGED DkpVars

\* EventStore.Append of one event by the dkp Manager: the rows afterwards.
AppendOne(rows, e, ioerr, t) ==
    IF ioerr \/ Conflicts(rows, <<e>>) THEN rows
    ELSE rows \cup Inserted(<<e>>, t)

\* Manager.RegisterPlayer: Append of player.registered, Version 1; an error
\* is logged and the player is returned all the same.
RegisterAppend(p, ioerr) ==
    /\ cmds[p].op = "register" /\ cmds[p].pc = "append"
    /\ LET c == cmds[p]
           e == [AggregateID |-> c.player, Type |-> PlayerRegistered,
                 Data |-> [DiscordID |-> c.discord],
                 Version |-> 1, CreatedAt |-> ZeroTime]
       IN  /\ store' = AppendOne(store, e, ioerr, now)
           /\ cmds' = [cmds EXCEPT ![p] =
                 Done([c EXCEPT !.failed = ioerr \/ Conflicts(store, <<e>>)],
                      Ok)]
    /\ UNCHANGED <<players, dkpOps>>
    /\ UNCHANGED DkpVars

\* Manager.AwardDKP / DeductDKP over an UpdateDKP that does not look at
\* RowsAffected: a faulty variant, under which a call for a player id
\* without a row goes on to its Append.
DkpUpdateAnyRows(p, op, playerID, amount, ioerr) ==
    /\ Free(p)
    /\ dkpOps < MaxDkpOps
    /\ dkpOps' = dkpOps + 1
    /\ LET c == [Idle EXCEPT !.op = op, !.player = playerID,
                             !.amount = amount]
           d == RowWithID(playerID)
           delta == IF op = "award" THEN amount ELSE -amount
       IN  IF ioerr
           THEN /\ cmds' = [cmds EXCEPT ![p] = Done(c, ErrUpdate)]
                /\ UNCHANGED players
           ELSE /\ players' = IF d = 0 THEN players
                              ELSE [players EXCEPT ![d].DKP = @ + delta]
                /\ cmds' = [cmds EXCEPT ![p] = [c EXCEPT !.pc = "append"]]
    /\ UNCHANGED store
    /\ UNCHANGED DkpVars

\* Manager.AwardDKP / DeductDKP over an UpdateDKP that writes a balance
\* computed from the value the row had when it was created, instead of
\* adding in the UPDATE itself: a faulty variant, under which the second of
\* two calls overwrites the first.
DkpUpdateOverwrites(p, op, playerID, amount, ioerr) ==
    /\ Free(p)
    /\ dkpOps < MaxDkpOps
    /\ dkpOps' = dkpOps + 1
    /\ LET c == [Idle EXCEPT !.op = op, !.player = playerID,
                             !.amount = amount]
           d == RowWithID(playerID)
           delta == IF op = "award" THEN amount ELSE -amount
       IN  IF ioerr \/ d = 0
           THEN /\ cmds' = [cmds EXCEPT ![p] = Done(c, ErrUpdate)]
                /\ UNCHANGED players
           ELSE /\ players' = [players EXCEPT ![d].DKP = delta]
                /\ cmds' = [cmds EXCEPT ![p] = [c EXCEPT !.pc = "append"]]
    /\ UNCHANGED store
    /\ UNCHANGED DkpVars

\* Manager.AwardDKP (delta = amount) and Manager.DeductDKP (delta =
\* -amount): players.UpdateDKP. No row updated, or a fault, is an error.
DkpUpdate(p, op, playerID, amount, ioerr) ==
    /\ Free(p)
    /\ dkpOps < MaxDkpOps
    /\ dkpOps' = dkpOps + 1
    /\ LET c == [Idle EXCEPT !.op = op, !.player = playerID,
                             !.amount = amount]
           d == RowWithID(playerID)
           delta == IF op = "award" THEN amount ELSE -amount
       IN  IF ioerr \/ d = 0
           THEN /\ cmds' = [cmds EXCEPT ![p] = Done(c, ErrUpdate)]
                /\ UNCHANGED players
           ELSE /\ players' = [players EXCEPT ![d].DKP = @ + delta]
                /\ cmds' = [cmds EXCEPT ![p] = [c EXCEPT !.pc = "append"]]
    /\ UNCHANGED store
    /\ UNCHANGED DkpVars

\* Manager.AwardDKP / DeductDKP: Append of dkp.awarded / dkp.deducted with
\* Version 0; an error is logged and the call returns nil.
DkpAppend(p, ioerr) ==
    /\ cmds[p].op \in {"award", "deduct"} /\ cmds[p].pc = "append"
    /\ LET c == cmds[p]
           e == [AggregateID |-> c.player,
                 Type |-> IF c.op = "award" THEN DKPAwarded ELSE DKPDeducted,
                 Data |-> [PlayerID |-> c.player,
                           Amount |-> IF c.op = "award" THEN c.amount
                                      ELSE -c.amount],
                 Version |-> 0, CreatedAt |-> ZeroTime]
       IN  /\ store' = AppendOne(store, e, ioerr, now)
           /\ cmds' = [cmds EXCEPT ![p] =
                 Done([c EXCEPT !.failed = ioerr \/ Conflicts(store, <<e>>)],
                      Ok)]
    /\ UNCHANGED <<players, dkpOps>>
    /\ UNCHANGED DkpVars

\* The handler of a dkp command has replied.
DkpReturn(p) ==
    /\ cmds[p].pc = "done"
    /\ cmds' = [cmds EXCEPT ![p] = Idle]
    /\ UNCHANGED <<players, store, dkpOps>>
    /\ UNCHANGED DkpVars

InitDkp ==
    /\ auctions = {}
    /\ heap = [id \in AuctionIds |-> NoAuction]
    /\ store = {}
    /\ players = [d \in DiscordIds |->
                    [registered |-> FALSE, ID |-> 0, DKP |-> 0]]
    /\ cmds = [p \in Procs |-> Idle]
    /\ phase = "serving"
    /\ recovery = [n |-> 0, err |-> FALSE, skipped |-> {}]
    /\ restarts = 0
    /\ now = 1
    /\ InitOther

NextDkp ==
    \/ \E p \in Procs, d \in DiscordIds, ioerr \in BOOLEAN :
          RegisterCreate(p, d, ioerr)
    \/ \E p \in Procs, ioerr \in BOOLEAN : RegisterAppend(p, ioerr)
    \/ \E p \in Procs, op \in {"award", "deduct"}, d \in DiscordIds,
          amount \in Amounts, ioerr \in BOOLEAN :
          DkpUpdate(p, op, PlayerID(d), amount, ioerr)
    \/ \E p \in Procs, ioerr \in BOOLEAN : DkpAppend(p, ioerr)
    \/ \E p \in Procs : DkpReturn(p)

SpecDkp == InitDkp /\ [][NextDkp]_vars

\* C4: the events of a player carry the versions 1..N: player.registered
\* is version 1 and each dkp.awarded / dkp.deducted has the next version,
\* so that the unique (aggregate_id, version) index accepts every one.
C4_PlayerVersionsContiguous ==
    \A d \in DiscordIds :
        LET rows == RowsOf(store, PlayerID(d))
        IN  /\ {e.Version : e \in rows} = 1..Cardinality(rows)
            /\ \A e \in rows : e.Type = PlayerRegistered <=> e.Version = 1

----------------------------------------------------------------------------
(* One Auction aggregate, its clock and its stream in the event store.     *)

ReplayVars == <<auctions, heap, players, cmds, phase, recovery, restarts,
                dkpOps, lease, replicas, health, db, locks>>

\* auction.New
AggNew(id, minBid) ==
    /\ agg = NoAuction
    /\ agg' = New(id, "item", "admin", minBid)
    /\ UNCHANGED <<store, now>>
    /\ UNCHANGED ReplayVars

\* Auction.PlaceBid: an accepted bid is stamped with clock.Now().
AggPlaceBid(d, amount, playerDKP) ==
    /\ agg # NoAuction
    /\ PlaceBidErr(agg, PlayerID(d), amount, playerDKP) = Ok
    /\ agg' = PlaceBid(agg, PlayerID(d), amount, playerDKP, now)
    /\ UNCHANGED <<store, now>>
    /\ UNCHANGED ReplayVars

\* Auction.Close
AggClose ==
    /\ agg # NoAuction
    /\ CloseErr(agg) = Ok
    /\ agg' = Close(agg)
    /\ UNCHANGED <<store, now>>
    /\ UNCHANGED ReplayVars

\* Auction.Cancel
AggCancel ==
    /\ agg # NoAuction
    /\ agg.Status = "open"
    /\ agg' = Cancel(agg)
    /\ UNCHANGED <<store, now>>
    /\ UNCHANGED ReplayVars

\* PendingEvents and a committed EventStore.Append of the buffer.
AggPersist ==
    /\ agg # NoAuction
    /\ agg.events # <<>>
    /\ ~Conflicts(store, agg.events)
    /\ store' = store \cup Inserted(agg.events, now)
    /\ agg' = PendingEvents(agg)
    /\ UNCHANGED now
    /\ UNCHANGED ReplayVars

\* Time passes between two readings of the clock.
Tick ==
    /\ now < MaxTime
    /\ now' = now + 1
    /\ UNCHANGED <<agg, store>>
    /\ UNCHANGED ReplayVars

InitReplay ==
    /\ auctions = {}
    /\ heap = [id \in AuctionIds |-> NoAuction]
    /\ store = {}
    /\ players = [d \in DiscordIds |->
                    [registered |-> FALSE, ID |-> 0, DKP |-> 0]]
    /\ cmds = [p \in Procs |-> Idle]
    /\ phase = "serving"
    /\ recovery = [n |-> 0, err |-> FALSE, skipped |-> {}]
    /\ restarts = 0
    /\ now = 1
    /\ agg = NoAuction
    /\ dkpOps = 0
    /\ lease = NoReplica
    /\ replicas = <<>>
    /\ health = NoHandler
    /\ db = NoTables
    /\ locks = NoLocks

NextReplay ==
    \/ \E id \in AuctionIds, minBid \in MinBids : AggNew(id, minBid)
    \/ \E d \in DiscordIds, amount \in Amounts, playerDKP \in Amounts :
          AggPlaceBid(d, amount, playerDKP)
    \/ AggClose
    \/ AggCancel
    \/ AggPersist
    \/ Tick

SpecReplay == InitReplay /\ [][NextReplay]_vars

\* C7: once the buffer of the aggregate is persisted, the live auction,
\* with the time recorded for each bid, is the auction that Replay builds
\* from the stream loaded from the event store.
C7_LiveEqualsReplay ==
    (agg # NoAuction /\ agg.events = <<>>)
        => agg = Replay(Load(store, agg.ID))

\* The same with the time of each bid left out of the comparison.
LiveEqualsReplayButTime ==
    (agg # NoAuction /\ agg.events = <<>>)
        => LET r == Replay(Load(store, agg.ID))
           IN  /\ [agg EXCEPT !.Bids = <<>>] = [r EXCEPT !.Bids = <<>>]
               /\ BidPairs(agg.Bids) = BidPairs(r.Bids)

----------------------------------------------------------------------------
(* Leader election: the replicas of the bot, the lease and the gateway.    *)

Replicas == {1, 2}

LeaderVars == <<auctions, heap, players, cmds, phase, recovery, now, agg,
                dkpOps, health, db, locks>>

\* A replica that waits for leadership: the elector in its acquire loop,
\* startBot not running, no gateway session, an empty live table.
Standby ==
    [elector |-> "acquiring", pc |-> "none", ctxDone |-> FALSE,
     gateway |-> FALSE, ready |-> FALSE, table |-> {}, stale |-> FALSE,
     recovered |-> FALSE]

\* leader.Run: the elector acquires the free lease and runs
\* OnStartedLeading (startBot) in a goroutine of its own.
Acquire(r) ==
    /\ replicas[r].elector = "acquiring"
    /\ lease = NoReplica
    /\ lease' = r
    /\ replicas' = [replicas EXCEPT ![r].elector = "renewing",
                                    ![r].pc = "recover"]
    /\ UNCHANGED <<store, restarts>>
    /\ UNCHANGED LeaderVars

\* startBot: RecoverOpenAuctions; an error is logged and startBot goes on.
LeaderRecover(r, loadErr) ==
    /\ replicas[r].pc = "recover"
    /\ replicas' = [replicas EXCEPT
          ![r].pc = "start",
          ![r].recovered = TRUE,
          ![r].table = IF loadErr THEN {}
                       ELSE {Replay(Load(store, id)) :
                                id \in RecoverOpenAuctions(store, {})}]
    /\ UNCHANGED <<store, lease, restarts>>
    /\ UNCHANGED LeaderVars

\* startBot opening the session without the recovery before it: a faulty
\* variant, under which commands reach a table not yet recovered.
LeaderBotStartEarly(r, outcome) ==
    /\ replicas[r].pc \in {"recover", "start"}
    /\ replicas' = [replicas EXCEPT
          ![r].pc = IF outcome = "ok" THEN "serving" ELSE "returned",
          ![r].gateway = outcome \in {"ok", "registerFailed"},
          ![r].ready = outcome = "ok"]
    /\ UNCHANGED <<store, lease, restarts>>
    /\ UNCHANGED LeaderVars

\* startBot: bot.New and Bot.Start. Start opens the session and then
\* registers the slash commands; when the registration fails the session
\* stays open and startBot returns.
LeaderBotStart(r, outcome) ==
    /\ replicas[r].pc = "start"
    /\ replicas' = [replicas EXCEPT
          ![r].pc = IF outcome = "ok" THEN "serving" ELSE "returned",
          ![r].gateway = outcome \in {"ok", "registerFailed"},
          ![r].ready = outcome = "ok"]
    /\ UNCHANGED <<store, lease, restarts>>
    /\ UNCHANGED LeaderVars

\* The elector stops renewing (its context is cancelled, or the renewals
\* failed until the deadline) and, ReleaseOnCancel being set, gives the
\* lease up.
Release(r) ==
    /\ replicas[r].elector = "renewing"
    /\ lease' = IF lease = r THEN NoReplica ELSE lease
    /\ replicas' = [replicas EXCEPT ![r].elector = "released"]
    /\ UNCHANGED <<store, restarts>>
    /\ UNCHANGED LeaderVars

\* leader.Run hanging after the lease is given up, OnStoppedLeading never
\* called: a faulty variant, under which run does not return.
StoppedLeadingNever(r) ==
    /\ replicas[r].elector = "released"
    /\ replicas' = [replicas EXCEPT ![r].ctxDone = TRUE]
    /\ UNCHANGED <<store, lease, restarts>>
    /\ UNCHANGED LeaderVars

\* The elector returns: the leading context is cancelled and
\* OnStoppedLeading cancels the context of run.
StoppedLeading(r) ==
    /\ replicas[r].elector = "released"
    /\ replicas' = [replicas EXCEPT ![r].elector = "stopped",
                                    ![r].ctxDone = TRUE]
    /\ UNCHANGED <<store, lease, restarts>>
    /\ UNCHANGED LeaderVars

\* startBot after <-ctx.Done(): SetReady(false) and Bot.Stop. The live
\* table of the Manager is left as it is.
BotStop(r) ==
    /\ replicas[r].pc = "serving"
    /\ replicas[r].ctxDone
    /\ replicas' = [replicas EXCEPT ![r].pc = "returned",
                                    ![r].gateway = FALSE,
                                    ![r].ready = FALSE]
    /\ UNCHANGED <<store, lease, restarts>>
    /\ UNCHANGED LeaderVars

\* run returns once leader.Run has returned, without waiting for startBot;
\* the process exits and the pod comes up again as a standby.
ProcessExit(r) ==
    /\ replicas[r].elector = "stopped"
    /\ restarts < MaxRestarts
    /\ restarts' = restarts + 1
    /\ replicas' = [replicas EXCEPT ![r] = Standby]
    /\ UNCHANGED <<store, lease>>
    /\ UNCHANGED LeaderVars

\* A command arrives on the open gateway session of r: StartAuction, its
\* Append committed. stale records a command run without the lease.
DispatchStart(r, id, minBid) ==
    /\ replicas[r].gateway
    /\ LET a == New(id, "item", "admin", minBid)
       IN  /\ ~Conflicts(store, a.events)
           /\ store' = store \cup Inserted(a.events, now)
           /\ replicas' = [replicas EXCEPT
                 ![r].table = {b \in @ : b.ID # id} \cup {PendingEvents(a)},
                 ![r].stale = @ \/ lease # r]
    /\ UNCHANGED <<lease, restarts>>
    /\ UNCHANGED LeaderVars

\* A command arrives on the open gateway session of r: CloseAuction of a
\* live auction; an Append that hits the unique index is only logged.
DispatchClose(r, id) ==
    /\ replicas[r].gateway
    /\ \E a \in replicas[r].table :
          /\ a.ID = id
          /\ LET batch == Close(a).events
             IN  store' = IF Conflicts(store, batch) THEN store
                          ELSE store \cup Inserted(batch, now)
          /\ replicas' = [replicas EXCEPT ![r].table = @ \ {a},
                                          ![r].stale = @ \/ lease # r]
    /\ UNCHANGED <<lease, restarts>>
    /\ UNCHANGED LeaderVars

InitLeader ==
    /\ auctions = {}
    /\ heap = [id \in AuctionIds |-> NoAuction]
    /\ store = {}
    /\ players = [d \in DiscordIds |->
                    [registered |-> FALSE, ID |-> 0, DKP |-> 0]]
    /\ cmds = [p \in Procs |-> Idle]
    /\ phase = "serving"
    /\ recovery = [n |-> 0, err |-> FALSE, skipped |-> {}]
    /\ restarts = 0
    /\ now = 1
    /\ agg = NoAuction
    /\ dkpOps = 0
    /\ lease = NoReplica
    /\ replicas = [r \in Replicas |-> Standby]
    /\ health = NoHandler
    /\ db = NoTables
    /\ locks = NoLocks

NextLeader ==
    \/ \E r \in Replicas : Acquire(r)
    \/ \E r \in Replicas, loadErr \in BOOLEAN : LeaderRecover(r, loadErr)
    \/ \E r \in Replicas, outcome \in {"ok", "openFailed", "registerFailed"} :
          LeaderBotStart(r, outcome)
    \/ \E r \in Replicas : Release(r)
    \/ \E r \in Replicas : StoppedLeading(r)
    \/ \E r \in Replicas : BotStop(r)
    \/ \E r \in Replicas : ProcessExit(r)
    \/ \E r \in Replicas, id \in AuctionIds, minBid \in MinBids :
          DispatchStart(r, id, minBid)
    \/ \E r \in Replicas, id \in AuctionIds : DispatchClose(r, id)

SpecLeader == InitLeader /\ [][NextLeader]_vars

\* C9: at most one replica has its gateway session open, and a replica
\* that does not hold the lease has no gateway session, holds no live
\* auction and has run no command.
C9_SingleActiveReplica ==
    /\ Cardinality({r \in Replicas : replicas[r].gateway}) <= 1
    /\ \A r \in Replicas :
          lease # r => /\ ~replicas[r].gateway
                       /\ replicas[r].table = {}
                       /\ ~replicas[r].stale

----------------------------------------------------------------------------
(* Recovery run twice on one event log.                                    *)

\* The auctions of the log that recovery reads.
RecoverIds == {1, 2}

RecoverFrame == <<players, cmds, restarts, now, dkpOps, lease, replicas,
                  health, db, locks>>

\* The log is written by an earlier leader, command by command, each with
\* its Append committed: StartAuction.
LogStart(id, minBid) ==
    /\ phase = "serving"
    /\ agg = NoAuction
    /\ id \notin StartedIds(store)
    /\ \A j \in RecoverIds : j < id => j \in StartedIds(store)
    /\ LET a == New(id, "item", "admin", minBid)
       IN  /\ store' = store \cup Inserted(a.events, now)
           /\ agg' = PendingEvents(a)
    /\ UNCHANGED <<auctions, heap, phase, recovery>>
    /\ UNCHANGED RecoverFrame

\* The earlier leader: PlaceBid, accepted and persisted.
LogBid(d, amount) ==
    /\ phase = "serving"
    /\ agg # NoAuction
    /\ PlaceBidErr(agg, PlayerID(d), amount, MaxAmount) = Ok
    /\ LET a == PlaceBid(agg, PlayerID(d), amount, MaxAmount, now)
       IN  /\ store' = store \cup Inserted(a.events, now)
           /\ agg' = PendingEvents(a)
    /\ UNCHANGED <<auctions, heap, phase, recovery>>
    /\ UNCHANGED RecoverFrame

\* The earlier leader: CloseAuction (cancel = FALSE) or a cancellation,
\* persisted; the auction leaves its table.
LogEnd(cancel) ==
    /\ phase = "serving"
    /\ agg # NoAuction
    /\ LET a == IF cancel THEN Cancel(agg) ELSE Close(agg)
       IN  store' = store \cup Inserted(a.events, now)
    /\ agg' = NoAuction
    /\ UNCHANGED <<auctions, heap, phase, recovery>>
    /\ UNCHANGED RecoverFrame

\* The earlier leader goes away and leaves the auction open in the log.
LogLeave ==
    /\ phase = "serving"
    /\ agg # NoAuction
    /\ agg' = NoAuction
    /\ UNCHANGED <<store, auctions, heap, phase, recovery>>
    /\ UNCHANGED RecoverFrame

\* The live table after one call of Manager.RecoverOpenAuctions with a
\* failing LoadByType that empties it: a faulty variant, under which a
\* second call need not reproduce the first.
RecoverCallClearing(loadErr, failed) ==
    /\ phase \in {"serving", "once"}
    /\ agg = NoAuction
    /\ failed \subseteq StartedIds(store)
    /\ loadErr => failed = {}
    /\ auctions' = IF loadErr THEN {} ELSE RecoverOpenAuctions(store, failed)
    /\ heap' = [id \in RecoverIds |->
                  IF id \in auctions' THEN Replay(Load(store, id))
                  ELSE NoAuction]
    /\ recovery' = [n |-> Cardinality(auctions'), err |-> loadErr,
                    skipped |-> failed, before |-> <<auctions, heap>>,
                    clean |-> IF phase = "serving"
                              THEN ~loadErr /\ failed = {}
                              ELSE recovery.clean]
    /\ phase' = IF phase = "serving" THEN "once" ELSE "twice"
    /\ UNCHANGED <<store, agg>>
    /\ UNCHANGED RecoverFrame

\* Manager.RecoverOpenAuctions on the new leader, called on the log as it
\* stands: LoadByType failing returns (0, err) and leaves the table as it
\* is; an auction whose Load fails is skipped; every auction found open is
\* put in the table, m.auctions[id] = a. recovery keeps the table from
\* before the call and whether the first call loaded everything.
RecoverCall(loadErr, failed) ==
    /\ phase \in {"serving", "once"}
    /\ agg = NoAuction
    /\ failed \subseteq StartedIds(store)
    /\ loadErr => failed = {}
    /\ LET found == IF loadErr THEN {}
                    ELSE RecoverOpenAuctions(store, failed)
       IN  /\ auctions' = auctions \cup found
           /\ heap' = [id \in RecoverIds |->
                         IF id \in found THEN Replay(Load(store, id))
                         ELSE heap[id]]
           /\ recovery' = [n |-> Cardinality(found), err |-> loadErr,
                           skipped |-> failed,
                           before |-> <<auctions, heap>>,
                           clean |-> IF phase = "serving"
                                     THEN ~loadErr /\ failed = {}
                                     ELSE recovery.clean]
    /\ phase' = IF phase = "serving" THEN "once" ELSE "twice"
    /\ UNCHANGED <<store, agg>>
    /\ UNCHANGED RecoverFrame

InitRecover ==
    /\ auctions = {}
    /\ heap = [id \in RecoverIds |-> NoAuction]
    /\ store = {}
    /\ players = [d \in DiscordIds |->
                    [registered |-> FALSE, ID |-> 0, DKP |-> 0]]
    /\ cmds = [p \in Procs |-> Idle]
    /\ phase = "serving"
    /\ recovery = [n |-> 0, err |-> FALSE, skipped |-> {},
                   before |-> <<{}, [id \in RecoverIds |-> NoAuction]>>,
                   clean |-> FALSE]
    /\ restarts = 0
    /\ now = 1
    /\ InitOther

NextRecover ==
    \/ \E id \in RecoverIds, minBid \in MinBids : LogStart(id, minBid)
    \/ \E d \in DiscordIds, amount \in Amounts : LogBid(d, amount)
    \/ \E cancel \in BOOLEAN : LogEnd(cancel)
    \/ LogLeave
    \/ \E loadErr \in BOOLEAN, failed \in SUBSET RecoverIds :
          RecoverCall(loadErr, failed)

SpecRecover == InitRecover /\ [][NextRecover]_vars

C12_RecoveryBeforeGateway ==
    /\ [](\A r \in Replicas :
             replicas[r].gateway => replicas[r].recovered)
    /\ [][\A r \in Replicas :
             (replicas'[r].table # replicas[r].table
                /\ replicas[r].pc \notin {"recover"}
                /\ replicas'[r] # Standby)
                 => replicas[r].recovered]_vars

\* A second leader serves the open auction that it recovered from the log
\* the first one wrote.
C12_Witness ==
    \E r, q \in Replicas :
        /\ r # q
        /\ replicas[q].pc = "returned" /\ replicas[q].table # {}
        /\ replicas[r].pc = "serving" /\ replicas[r].gateway
        /\ replicas[r].recovered
        /\ replicas[r].table # {}

----------------------------------------------------------------------------
(* Properties of the dkp Manager.                                          *)

RECURSIVE SumBalances(_)
\* The sum of players.dkp over the rows of these discord ids.
SumBalances(ds) ==
    IF ds = {} THEN 0
    ELSE LET d == CHOOSE x \in ds : TRUE
         IN  (IF players[d].registered THEN players[d].DKP ELSE 0)
                 + SumBalances(ds \ {d})

RECURSIVE SumAmounts(_)
\* The sum of the amounts carried by a set of dkp events.
SumAmounts(rows) ==
    IF rows = {} THEN 0
    ELSE LET e == CHOOSE x \in rows : TRUE
         IN  e.Data.Amount + SumAmounts(rows \ {e})

\* C13: whenever every dkp call issued so far has returned, the balances
\* add up to the stored dkp.awarded amounts minus the stored dkp.deducted
\* amounts.
C13_BalanceConservation ==
    (\A p \in Procs : cmds[p].pc \in {"idle", "done"})
        => SumBalances(DiscordIds) =
              SumAmounts({e \in store : e.Type = DKPAwarded})
                - SumAmounts({e \in store : e.Type = DKPDeducted})

\* C14: an AwardDKP / DeductDKP that has returned either changed the
\* balance, stored its event and reported success, or did neither and
\* reported an error; no call returns with its Append failed and the
\* balance changed.
C14_DkpAtomic ==
    \A p \in Procs :
        (cmds[p].pc = "done" /\ cmds[p].op \in {"award", "deduct"})
            => /\ ~cmds[p].failed
               /\ cmds[p].res = Ok =>
                     \E e \in RowsOf(store, cmds[p].player) :
                         /\ e.Type = IF cmds[p].op = "award" THEN DKPAwarded
                                     ELSE DKPDeducted
                         /\ e.Data.PlayerID = cmds[p].player

----------------------------------------------------------------------------
(* Calls on one Auction aggregate, accepted or rejected.                   *)

\* What a caller offers the aggregate: amounts and balances from 0 up.
Offers == 0..MaxAmount

BidFrame == <<auctions, store, players, phase, recovery, restarts, now,
              dkpOps, lease, replicas, health, db, locks>>

\* The record of the last call on the aggregate: its arguments and what
\* it returned (for Close, the winner in player and amount).
Called(op, playerID, amount, playerDKP, res) ==
    [Idle EXCEPT !.op = op, !.pc = "done", !.player = playerID,
                 !.amount = amount, !.dkp = playerDKP, !.res = res]

\* auction.New
BidNew(id, minBid) ==
    /\ agg = NoAuction
    /\ agg' = New(id, "item", "admin", minBid)
    /\ UNCHANGED <<heap, cmds>>
    /\ UNCHANGED BidFrame

\* Auction.PlaceBid with any arguments; heap keeps the aggregate as it was
\* before the call.
BidAttempt(d, amount, playerDKP) ==
    /\ agg # NoAuction
    /\ heap' = [heap EXCEPT ![1] = agg]
    /\ agg' = PlaceBid(agg, PlayerID(d), amount, playerDKP, now)
    /\ cmds' = [cmds EXCEPT ![1] =
          Called("bid", PlayerID(d), amount, playerDKP,
                 PlaceBidErr(agg, PlayerID(d), amount, playerDKP))]
    /\ UNCHANGED BidFrame

\* Auction.Close in any status; the call returns the winner (nil: zeros).
BidClose ==
    /\ agg # NoAuction
    /\ heap' = [heap EXCEPT ![1] = agg]
    /\ agg' = Close(agg)
    /\ cmds' = [cmds EXCEPT ![1] =
          IF CloseErr(agg) # Ok THEN Called("close", 0, 0, 0, CloseErr(agg))
          ELSE Called("close", highestBid(agg).PlayerID,
                      highestBid(agg).Amount, 0, Ok)]
    /\ UNCHANGED BidFrame

\* Auction.Cancel in any status.
BidCancel ==
    /\ agg # NoAuction
    /\ heap' = [heap EXCEPT ![1] = agg]
    /\ agg' = Cancel(agg)
    /\ cmds' = [cmds EXCEPT ![1] = Called("cancel", 0, 0, 0, CancelErr(agg))]
    /\ UNCHANGED BidFrame

InitBid ==
    /\ auctions = {}
    /\ heap = [id \in AuctionIds |-> NoAuction]
    /\ store = {}
    /\ players = [d \in DiscordIds |->
                    [registered |-> FALSE, ID |-> 0, DKP |-> 0]]
    /\ cmds = [p \in Procs |-> Idle]
    /\ phase = "serving"
    /\ recovery = [n |-> 0, err |-> FALSE, skipped |-> {}]
    /\ restarts = 0
    /\ now = 1
    /\ InitOther

\* handleAuctionStart: min-bid is 0 when the option is left out, otherwise
\* the integer given.
StartMinBids == {0} \cup MinBids

NextBid ==
    \/ \E id \in AuctionIds, minBid \in StartMinBids : BidNew(id, minBid)
    \/ \E d \in DiscordIds, amount \in Offers, playerDKP \in Offers :
          BidAttempt(d, amount, playerDKP)
    \/ BidClose
    \/ BidCancel

SpecBid == InitBid /\ [][NextBid]_vars

\* The bid of greatest amount in a non-empty sequence of bids.
Greatest(bids) ==
    bids[CHOOSE i \in 1..Len(bids) :
            \A j \in 1..Len(bids) : bids[j].Amount <= bids[i].Amount]

\* C15: PlaceBid on an open auction accepts the bid if and only if
\* amount >= MinBid, amount <= the bidder's balance and there is no highest
\* bid or the amount exceeds it and the bidder is not its player. An
\* accepted bid is the one bid appended to Bids, Version goes up by one and
\* one auction.bid_placed event is emitted; a rejected bid changes nothing.
C15_PlaceBidAcceptance ==
    LET c == cmds[1]
        prev == heap[1]
    IN  (c.op = "bid" /\ prev.Status = "open") =>
          LET rule == /\ c.amount >= prev.MinBid
                      /\ c.amount <= c.dkp
                      /\ \/ Len(prev.Bids) = 0
                         \/ /\ c.amount > Greatest(prev.Bids).Amount
                            /\ c.player # Greatest(prev.Bids).PlayerID
          IN  /\ c.res = Ok <=> rule
              /\ c.res = Ok =>
                    /\ Len(agg.Bids) = Len(prev.Bids) + 1
                    /\ SubSeq(agg.Bids, 1, Len(prev.Bids)) = prev.Bids
                    /\ agg.Bids[Len(agg.Bids)].PlayerID = c.player
                    /\ agg.Bids[Len(agg.Bids)].Amount = c.amount
                    /\ agg.Version = prev.Version + 1
                    /\ Len(agg.events) = Len(prev.events) + 1
                    /\ SubSeq(agg.events, 1, Len(prev.events)) = prev.events
                    /\ agg.events[Len(agg.events)].Type = AuctionBidPlaced
                    /\ agg.events[Len(agg.events)].Data =
                          [PlayerID |-> c.player, Amount |-> c.amount]
              /\ c.res # Ok => agg = prev

\* A second bid was accepted over a first one of another player.
C15_Witness ==
    /\ cmds[1].op = "bid" /\ cmds[1].res = Ok
    /\ heap[1] # NoAuction /\ heap[1].Status = "open"
    /\ Len(heap[1].Bids) = 1
    /\ Len(agg.Bids) = 2

\* C16: a bid rejected with the below-minimum kind is below the minimum
\* bid; a bid that meets the minimum and fails to outbid the highest bid of
\* another player is reported with a kind of its own.
C16_DistinctRejectionKinds ==
    (cmds[1].op = "bid" /\ cmds[1].res = ErrBidTooLow)
        => cmds[1].amount < heap[1].MinBid

\* C17: Close on an open auction sets the status closed and returns the
\* last bid of Bids as the winner (none without bids); the one event it
\* emits is auction.closed with that bid's player and amount.
C17_CloseAwardsLastBid ==
    LET c == cmds[1]
        prev == heap[1]
        n == Len(prev.Bids)
    IN  (c.op = "close" /\ prev.Status = "open") =>
          /\ c.res = Ok
          /\ agg.Status = "closed"
          /\ agg.Bids = prev.Bids
          /\ c.player = IF n = 0 THEN 0 ELSE prev.Bids[n].PlayerID
          /\ c.amount = IF n = 0 THEN 0 ELSE prev.Bids[n].Amount
          /\ agg.Version = prev.Version + 1
          /\ Len(agg.events) = Len(prev.events) + 1
          /\ agg.events[Len(agg.events)].Type = AuctionClosed
          /\ agg.events[Len(agg.events)].Data =
                [WinnerID |-> c.player, Amount |-> c.amount]

\* An auction with two bids was closed.
C17_Witness ==
    /\ cmds[1].op = "close" /\ cmds[1].res = Ok
    /\ heap[1] # NoAuction /\ Len(heap[1].Bids) = 2
    /\ agg.Status = "closed"
    /\ cmds[1].player = heap[1].Bids[2].PlayerID

----------------------------------------------------------------------------
(* Bids placed in parallel through the coordinator.                        *)

\* The accepted bids of every aggregate strictly increase in the order of
\* their acceptance, and HighestBid is the last accepted one.
AcceptedInOrder ==
    \A id \in AuctionIds :
        (heap[id] # NoAuction /\ Len(heap[id].Bids) > 0) =>
            /\ StrictlyIncreasing(heap[id].Bids)
            /\ highestBid(heap[id]) = heap[id].Bids[Len(heap[id].Bids)]
            /\ highestBid(heap[id]).Amount = Greatest(heap[id].Bids).Amount

\* No PlaceBid is about to append a batch that the unique index refuses.
NoVersionConflict ==
    \A p \in Procs :
        (cmds[p].op = "bid" /\ cmds[p].pc = "append")
            => ~Conflicts(store, cmds[p].batch)

\* A bid at or above the minimum, within the bidder's balance, that reaches
\* an open aggregate without bids is accepted.
FirstBidAccepted ==
    \A p \in Procs :
        LET c == cmds[p]
        IN  (/\ c.op = "bid" /\ c.pc = "aggregate"
             /\ cmds'[p] # c
             /\ restarts' = restarts
             /\ heap[c.id].Status = "open" /\ heap[c.id].Bids = <<>>
             /\ c.amount >= heap[c.id].MinBid /\ c.amount <= c.dkp)
                => /\ Len(heap'[c.id].Bids) = 1
                   /\ heap'[c.id].Bids[1].PlayerID = c.player
                   /\ heap'[c.id].Bids[1].Amount = c.amount

\* C18: for bids placed in parallel on an open auction, the accepted bids
\* strictly increase in acceptance order, HighestBid is the last accepted
\* bid, the first bid that meets the minimum within its bidder's balance is
\* accepted (so at least one is), and no Append of the coordinator's
\* PlaceBid meets a version conflict.
C18_ParallelBids ==
    /\ []AcceptedInOrder
    /\ []NoVersionConflict
    /\ [][FirstBidAccepted]_vars

\* Two PlaceBid calls overlap: both bids are accepted, one call has taken
\* both events and the other call an empty batch.
C18_Witness ==
    \E p, q \in Procs :
        /\ p # q
        /\ cmds[p].op = "bid" /\ cmds[p].pc = "append"
        /\ cmds[q].op = "bid" /\ cmds[q].pc = "append"
        /\ cmds[p].player # cmds[q].player
        /\ Len(cmds[p].batch) = 2 /\ cmds[q].batch = <<>>
        /\ Len(heap[cmds[p].id].Bids) = 2

----------------------------------------------------------------------------
(* Settlement of a closed auction.                                         *)

\* The balance the players table starts with (Init).
StartingDKP(d) == IF d = 1 THEN MaxAmount ELSE MaxAmount - 1

\* C19: once CloseAuction has returned for an auction with a highest bid,
\* the balance of the winner named in the stored auction.closed event is
\* the balance it had less the winning amount of that event.
C19_CloseSettlesWin ==
    \A p \in Procs :
        (cmds[p].op = "close" /\ cmds[p].pc = "done" /\ cmds[p].res = Ok)
            => \A e \in RowsOf(store, cmds[p].id) :
                  (e.Type = AuctionClosed /\ e.Data.WinnerID # 0)
                      => \E d \in DiscordIds :
                            /\ players[d].ID = e.Data.WinnerID
                            /\ players[d].DKP =
                                  StartingDKP(d) - e.Data.Amount

----------------------------------------------------------------------------
(* EventStore.Append, statement by statement.                              *)

StoreFrame == <<auctions, heap, players, phase, recovery, restarts, agg,
                dkpOps, lease, replicas, health, db, locks>>

\* An event of aggregate 1 as a caller hands it to Append.
EventAt(v) ==
    [AggregateID |-> 1, Type |-> AuctionBidPlaced,
     Data |-> [PlayerID |-> PlayerID(1), Amount |-> v],
     Version |-> v, CreatedAt |-> ZeroTime]

\* The batches handed to Append: up to two events, any versions.
Batches ==
    {<<>>} \cup {<<EventAt(v)>> : v \in 1..MaxVersion}
           \cup {<<EventAt(v), EventAt(w)>> : v, w \in 1..MaxVersion}

\* The rows a transaction has inserted and not yet committed.
Pending(c) ==
    IF c.op = "append" /\ c.pc = "insert"
    THEN Inserted(SubSeq(c.batch, 1, c.n), c.time)
    ELSE {}

\* Append: BeginTx and Prepare. now() of the transaction is its start.
AppendBegin(p, batch, ioerr) ==
    /\ Free(p)
    /\ now <= MaxTx
    /\ now' = now + 1
    /\ cmds' = [cmds EXCEPT ![p] =
          [op |-> "append", pc |-> IF ioerr THEN "done" ELSE "insert",
           batch |-> batch, n |-> 0, time |-> now,
           res |-> IF ioerr THEN ErrPersist ELSE "", fault |-> ioerr]]
    /\ UNCHANGED store
    /\ UNCHANGED StoreFrame

\* One INSERT of the loop written straight to the table, outside any
\* transaction: a faulty variant, which leaves half a batch behind.
AppendInsertAutocommit(p, ioerr) ==
    /\ cmds[p].op = "append" /\ cmds[p].pc = "insert"
    /\ cmds[p].n < Len(cmds[p].batch)
    /\ LET c == cmds[p]
           e == c.batch[c.n + 1]
       IN  IF ioerr \/ Conflicts(store, <<e>>)
           THEN /\ cmds' = [cmds EXCEPT ![p] =
                      [c EXCEPT !.pc = "done", !.res = ErrPersist,
                                !.fault = ioerr]]
                /\ UNCHANGED store
           ELSE /\ cmds' = [cmds EXCEPT ![p] = [c EXCEPT !.n = c.n + 1]]
                /\ store' = store \cup Inserted(<<e>>, c.time)
    /\ UNCHANGED now
    /\ UNCHANGED StoreFrame

\* One INSERT of the loop on a table without the unique index: a faulty
\* variant, under which both of two racing Appends succeed.
AppendInsertNoIndex(p, ioerr) ==
    /\ cmds[p].op = "append" /\ cmds[p].pc = "insert"
    /\ cmds[p].n < Len(cmds[p].batch)
    /\ cmds' = [cmds EXCEPT ![p] =
          IF ioerr
          THEN [cmds[p] EXCEPT !.pc = "done", !.res = ErrPersist,
                               !.fault = TRUE]
          ELSE [cmds[p] EXCEPT !.n = cmds[p].n + 1]]
    /\ UNCHANGED <<store, now>>
    /\ UNCHANGED StoreFrame

\* Append: one stmt.ExecContext of the loop. A row with the same
\* (aggregate_id, version), committed or inserted earlier in this
\* transaction, or any fault, is an error: the deferred Rollback drops the
\* transaction's rows. The statement waits while another transaction holds
\* the key uncommitted.
AppendInsert(p, ioerr) ==
    /\ cmds[p].op = "append" /\ cmds[p].pc = "insert"
    /\ cmds[p].n < Len(cmds[p].batch)
    /\ LET c == cmds[p]
           e == c.batch[c.n + 1]
       IN  /\ ~\E q \in Procs \ {p} : Conflicts(Pending(cmds[q]), <<e>>)
           /\ cmds' = [cmds EXCEPT ![p] =
                 IF ioerr \/ Conflicts(store \cup Pending(c), <<e>>)
                 THEN [c EXCEPT !.pc = "done", !.res = ErrPersist,
                                !.fault = ioerr]
                 ELSE [c EXCEPT !.n = c.n + 1]]
    /\ UNCHANGED <<store, now>>
    /\ UNCHANGED StoreFrame

\* Append: tx.Commit after the loop; a failed commit is an error and
\* nothing of the transaction is kept.
AppendCommit(p, ioerr) ==
    /\ cmds[p].op = "append" /\ cmds[p].pc = "insert"
    /\ cmds[p].n = Len(cmds[p].batch)
    /\ LET c == cmds[p]
       IN  IF ioerr
           THEN /\ cmds' = [cmds EXCEPT ![p] =
                      [c EXCEPT !.pc = "done", !.res = ErrPersist,
                                !.fault = TRUE]]
                /\ UNCHANGED store
           ELSE /\ store' = store \cup Inserted(c.batch, c.time)
                /\ cmds' = [cmds EXCEPT ![p] =
                      [c EXCEPT !.pc = "done", !.res = Ok]]
    /\ UNCHANGED now
    /\ UNCHANGED StoreFrame

\* Append has returned to its caller.
AppendReturn(p) ==
    /\ cmds[p].op = "append" /\ cmds[p].pc = "done"
    /\ cmds' = [cmds EXCEPT ![p] = Idle]
    /\ UNCHANGED <<store, now>>
    /\ UNCHANGED StoreFrame

InitStore ==
    /\ auctions = {}
    /\ heap = [id \in AuctionIds |-> NoAuction]
    /\ store = {}
    /\ players = [d \in DiscordIds |->
                    [registered |-> FALSE, ID |-> 0, DKP |-> 0]]
    /\ cmds = [p \in Procs |-> Idle]
    /\ phase = "serving"
    /\ recovery = [n |-> 0, err |-> FALSE, skipped |-> {}]
    /\ restarts = 0
    /\ now = 1
    /\ InitOther

NextStore ==
    \/ \E p \in Procs, batch \in Batches, ioerr \in BOOLEAN :
          AppendBegin(p, batch, ioerr)
    \/ \E p \in Procs, ioerr \in BOOLEAN : AppendInsert(p, ioerr)
    \/ \E p \in Procs, ioerr \in BOOLEAN : AppendCommit(p, ioerr)
    \/ \E p \in Procs : AppendReturn(p)

SpecStore == InitStore /\ [][NextStore]_vars

\* The events that Load returns for aggregate 1, as a set.
Visible == {Load(store, 1)[i] : i \in 1..Len(Load(store, 1))}

\* The rows of the events table that a call of Append wrote.
RowsWrittenBy(c) == {e \in Visible : e.CreatedAt = c.time}

\* An Append that returned nil has every event of its batch visible to
\* Load; one that returned an error, or has not returned, has none.
AllOrNothing ==
    \A p \in Procs :
        LET c == cmds[p]
        IN  c.op = "append" =>
              IF c.pc = "done" /\ c.res = Ok
              THEN RowsWrittenBy(c) = Inserted(c.batch, c.time)
              ELSE RowsWrittenBy(c) = {}

\* A step of Append that ends in an error, or that has not committed,
\* leaves the log as it was.
FailureKeepsLog ==
    \A p \in Procs :
        (cmds[p].pc = "insert" /\ cmds'[p] # cmds[p]
           /\ ~(cmds'[p].pc = "done" /\ cmds'[p].res = Ok))
            => store' = store

\* C20: Append of a batch is all-or-nothing: on success every event of the
\* batch is visible to Load; on an error, such as the k-th event meeting an
\* existing (aggregate_id, version), none is and the log is unchanged.
C20_AppendAllOrNothing == []AllOrNothing /\ [][FailureKeepsLog]_vars

\* An Append of two events failed on its second event, which met a version
\* already in the log, and its first event is not in the log.
C20_Witness ==
    \E p \in Procs :
        LET c == cmds[p]
        IN  /\ c.op = "append" /\ c.pc = "done" /\ c.res = ErrPersist
            /\ Len(c.batch) = 2 /\ c.n = 1
            /\ Conflicts(store, <<c.batch[2]>>)
            /\ ~Conflicts(store, <<c.batch[1]>>)

----------------------------------------------------------------------------
(* Appends that race on the unique index, over two aggregates.             *)

\* The batches of the racing callers: one event, or two of one aggregate,
\* of aggregate 1 or 2, versions 1 and 2.
RaceBatches ==
    LET ev(id, v) == [EventAt(v) EXCEPT !.AggregateID = id]
    IN  {<<ev(id, v)>> : id \in {1, 2}, v \in {1, 2}}
          \cup {<<ev(id, 1), ev(id, 2)>> : id \in {1, 2}}

\* Append called with a batch of the racing callers.
RaceBegin(p, batch, ioerr) ==
    /\ batch \in RaceBatches
    /\ AppendBegin(p, batch, ioerr)

NextRace ==
    \/ \E p \in Procs, batch \in RaceBatches, ioerr \in BOOLEAN :
          RaceBegin(p, batch, ioerr)
    \/ \E p \in Procs, ioerr \in BOOLEAN : AppendInsert(p, ioerr)
    \/ \E p \in Procs, ioerr \in BOOLEAN : AppendCommit(p, ioerr)
    \/ \E p \in Procs : AppendReturn(p)

SpecRace == InitStore /\ [][NextRace]_vars

\* The (aggregate_id, version) keys of a batch or of a set of rows.
KeysOf(batch) ==
    {<<batch[i].AggregateID, batch[i].Version>> : i \in 1..Len(batch)}
StoredKeys == {<<e.AggregateID, e.Version>> : e \in store}

\* No two rows of the log share (aggregate_id, version): of the Appends
\* that carry one key at most one has succeeded.
UniqueKeys ==
    \A e, f \in store :
        (e.AggregateID = f.AggregateID /\ e.Version = f.Version) => e = f

\* An Append that failed without a fault of the database carries a key that
\* is in the log: it lost to a committed Append of the same aggregate.
LosesOnlyToSameKey ==
    \A p \in Procs :
        LET c == cmds[p]
        IN  (c.op = "append" /\ c.pc = "done" /\ c.res # Ok /\ ~c.fault)
                => KeysOf(c.batch) \cap StoredKeys # {}

\* An Append returns nil only if none of its keys was in the log.
ExistingKeyFails ==
    \A p \in Procs :
        (cmds[p].pc = "insert" /\ cmds'[p].pc = "done" /\ cmds'[p].res = Ok)
            => KeysOf(cmds[p].batch) \cap StoredKeys = {}

\* C21: of two Appends that race with the same (aggregate_id, version) one
\* succeeds and the other fails on the conflict; an Append whose key is in
\* the log fails; an Append never fails because of rows of another
\* aggregate.
C21_AppendRace ==
    /\ []UniqueKeys
    /\ []LosesOnlyToSameKey
    /\ [][ExistingKeyFails]_vars

\* Two Appends ran side by side with the same key: one has returned nil,
\* the other an error without any fault.
C21_Witness ==
    \E p, q \in Procs :
        /\ p # q
        /\ cmds[p].op = "append" /\ cmds[q].op = "append"
        /\ cmds[p].pc = "done" /\ cmds[p].res = Ok
        /\ cmds[q].pc = "done" /\ cmds[q].res # Ok /\ ~cmds[q].fault
        /\ KeysOf(cmds[p].batch) \cap KeysOf(cmds[q].batch) # {}

----------------------------------------------------------------------------
(* Registration against the players table as a set of rows.                *)

\* discord_id TEXT NOT NULL UNIQUE without the constraint: a faulty variant
\* that lets every INSERT through.
DiscordIDFree(rows, d) == FALSE

\* discord_id TEXT NOT NULL UNIQUE: a row with this discord_id exists.
DiscordIDTaken(rows, d) == \E r \in rows : r.DiscordID = d

\* id ... DEFAULT gen_random_uuid(): an id that no row has.
NewID(rows) == 100 + Cardinality(rows) + 1

\* Manager.RegisterPlayer: players.Create, one INSERT into players (a set
\* of rows here). It fails on the unique discord_id or on a fault, and the
\* call returns the error before any event is built.
PlayerCreate(p, d, ioerr) ==
    /\ Free(p)
    /\ dkpOps < MaxDkpOps
    /\ dkpOps' = dkpOps + 1
    /\ LET c == [Idle EXCEPT !.op = "register", !.discord = d]
       IN  IF ioerr \/ DiscordIDTaken(players, d)
           THEN /\ cmds' = [cmds EXCEPT ![p] =
                      [Done(c, ErrCreate) EXCEPT !.discord = d]]
                /\ UNCHANGED players
           ELSE /\ players' = players \cup
                      {[ID |-> NewID(players), DiscordID |-> d, DKP |-> 0]}
                /\ cmds' = [cmds EXCEPT ![p] =
                      [c EXCEPT !.pc = "append", !.player = NewID(players)]]
    /\ UNCHANGED store
    /\ UNCHANGED DkpVars

InitRegister ==
    /\ auctions = {}
    /\ heap = [id \in AuctionIds |-> NoAuction]
    /\ store = {}
    /\ players = {}
    /\ cmds = [p \in Procs |-> Idle]
    /\ phase = "serving"
    /\ recovery = [n |-> 0, err |-> FALSE, skipped |-> {}]
    /\ restarts = 0
    /\ now = 1
    /\ InitOther

NextRegister ==
    \/ \E p \in Procs, d \in DiscordIds, ioerr \in BOOLEAN :
          PlayerCreate(p, d, ioerr)
    \/ \E p \in Procs, ioerr \in BOOLEAN : RegisterAppend(p, ioerr)
    \/ \E p \in Procs : DkpReturn(p)

SpecRegister == InitRegister /\ [][NextRegister]_vars

\* No two rows of players share a discord id, and no two player.registered
\* events name the same discord id.
OnePlayerPerDiscordID ==
    /\ \A r, s \in players : r.DiscordID = s.DiscordID => r = s
    /\ \A e, f \in store :
          (e.Type = PlayerRegistered /\ f.Type = PlayerRegistered
             /\ e.Data.DiscordID = f.Data.DiscordID) => e = f

\* A RegisterPlayer that starts when its discord id has a row returns an
\* error, and neither the table nor the log changes.
RegisterExistingFails ==
    \A p \in Procs :
        (cmds[p].pc = "idle" /\ cmds'[p].op = "register"
           /\ DiscordIDTaken(players, cmds'[p].discord))
        => /\ cmds'[p].pc = "done" /\ cmds'[p].res # Ok
           /\ players' = players /\ store' = store

\* C22: RegisterPlayer for a discord id that has a player fails, creates no
\* second player and appends no player.registered event; in every state,
\* concurrent registrations included, no two players share a discord id.
C22_RegisterUnique ==
    /\ []OnePlayerPerDiscordID
    /\ [][RegisterExistingFails]_vars

\* A registration of a discord id that has a row has failed while another
\* caller registered a second discord id.
C22_Witness ==
    /\ Cardinality(players) = 2
    /\ \E p \in Procs :
          /\ cmds[p].op = "register" /\ cmds[p].pc = "done"
          /\ cmds[p].res = ErrCreate
          /\ DiscordIDTaken(players, cmds[p].discord)

----------------------------------------------------------------------------
(* The live table against the log.                                         *)

\* C23: whenever no command is in flight, the ids in the coordinator's live
\* table are the aggregates whose stream in the log holds auction.started
\* and no terminal event.
C23_TableEqualsOpenInLog ==
    Quiescent => auctions = {id \in AuctionIds : OpenInLog(id)}

\* A command whose lookup fails returns the lookup's error, and the step
\* leaves the live table, the aggregates, the log and the players as they
\* were: the auction id is not in the table (PlaceBid, CloseAuction), or the
\* bidder has no players row (PlaceBid).
LookupFailureChangesNothing ==
    \A p \in Procs :
        /\ (/\ cmds[p].pc = "idle"
            /\ cmds'[p].op \in {"bid", "close"}
            /\ cmds'[p].id \notin auctions)
           => /\ cmds'[p].pc = "done" /\ cmds'[p].res = ErrNotFound
              /\ UNCHANGED <<auctions, heap, store, players>>
        /\ (/\ cmds[p].op = "bid" /\ cmds[p].pc = "player"
            /\ cmds'[p].op = "bid" /\ cmds'[p] # cmds[p]
            /\ ~players[cmds[p].discord].registered)
           => /\ cmds'[p].pc = "done" /\ cmds'[p].res = ErrNotRegistered
              /\ UNCHANGED <<auctions, heap, store, players>>

\* C24: PlaceBid with an auction id that is not in the live table or with a
\* bidder without a player record, and CloseAuction with an auction id that
\* is not in the live table, return an error and change nothing: no bid, no
\* version, no event, the same live table.
C24_FailedLookupChangesNothing == [][LookupFailureChangesNothing]_vars

\* Both lookups have failed: a CloseAuction found no auction, a PlaceBid
\* found the auction but no player, and the auction is as it was started.
C24_Witness ==
    /\ \E p, q \in Procs :
          /\ cmds[p].op = "bid" /\ cmds[p].res = ErrNotRegistered
          /\ cmds[q].op = "close" /\ cmds[q].res = ErrNotFound
    /\ auctions = {1} /\ heap[1].Version = 1 /\ heap[1].Bids = <<>>
    /\ \A e \in store : e.Type = AuctionStarted

\* The auction.started event of an aggregate is in the log.
StartDurable(id) == \E e \in RowsOf(store, id) : e.Type = AuctionStarted

\* C25: a StartAuction whose Append of auction.started failed returns an
\* error and never reaches the insert into the live table: every auction in
\* the table, and every one about to be inserted, has its auction.started
\* in the log, so that PlaceBid and CloseAuction find no other.
C25_FailedStartNotInserted ==
    /\ \A id \in auctions : StartDurable(id)
    /\ \A p \in Procs :
          /\ (cmds[p].op = "start" /\ cmds[p].pc = "insert")
                => StartDurable(cmds[p].id)
          /\ (cmds[p].op = "start" /\ cmds[p].failed)
                => cmds[p].pc = "done" /\ cmds[p].res = ErrPersist

\* A StartAuction has failed on its Append, the table is empty, and a
\* PlaceBid for that id has found no auction.
C25_Witness ==
    /\ auctions = {} /\ store = {}
    /\ \E p, q \in Procs :
          /\ cmds[p].op = "start" /\ cmds[p].failed /\ cmds[p].pc = "done"
          /\ cmds[q].op = "bid" /\ cmds[q].id = cmds[p].id
          /\ cmds[q].res = ErrNotFound

----------------------------------------------------------------------------
(* The aggregate after it has left status open.                            *)

\* C26: once an Auction has left status open, by Close or by Cancel, every
\* later PlaceBid, Close and Cancel on it returns ErrAuctionClosed and
\* leaves the aggregate, its status included, as it was.
C26_TerminalIsFinal ==
    (/\ cmds[1].pc = "done"
     /\ heap[1] # NoAuction
     /\ heap[1].Status # "open")
    => /\ cmds[1].op \in {"bid", "close", "cancel"}
       /\ cmds[1].res = ErrAuctionClosed
       /\ agg = heap[1]

\* A bid that meets the minimum and the bidder's balance was made on a
\* canceled auction.
C26_Witness ==
    /\ cmds[1].op = "bid" /\ cmds[1].pc = "done"
    /\ heap[1] # NoAuction
    /\ heap[1].Status = "canceled"
    /\ cmds[1].amount >= heap[1].MinBid
    /\ cmds[1].amount <= cmds[1].dkp

----------------------------------------------------------------------------
(* The health handler: /readyz.                                            *)

MaxCheckers == 4

StatusOK == 200
StatusServiceUnavailable == 503

HealthFrame == <<auctions, heap, store, players, cmds, phase, recovery,
                 restarts, now, agg, dkpOps, lease, replicas, db, locks>>

\* No /readyz request has been served.
NoRequest == [pc |-> "idle", ready |-> FALSE, checks |-> <<>>,
              allOK |-> TRUE, code |-> 0]

\* Handler.SetReady
SetReady(ready) ==
    /\ health' = [health EXCEPT !.ready = ready]
    /\ UNCHANGED HealthFrame

\* ReadinessHandler: a request arrives; the flag is read under RLock and an
\* unset flag is answered 503 at once, without running a checker.
ReadinessBegin ==
    /\ health.req.pc \in {"idle", "done"}
    /\ health' = [health EXCEPT !.req =
          IF ~health.ready
          THEN [NoRequest EXCEPT !.pc = "done",
                                 !.code = StatusServiceUnavailable]
          ELSE [NoRequest EXCEPT !.pc = "checks", !.ready = TRUE]]
    /\ UNCHANGED HealthFrame

\* One pass of the loop over h.checkers in which the verdict is that of
\* the checker at hand alone: a faulty variant.
ReadinessCheckLastWins(err) ==
    /\ health.req.pc = "checks"
    /\ Len(health.req.checks) < health.checkers
    /\ health' = [health EXCEPT
          !.req.checks = Append(@, IF err THEN "error" ELSE "ok"),
          !.req.allOK = ~err]
    /\ UNCHANGED HealthFrame

\* ReadinessHandler: one pass of the loop over h.checkers; the checker
\* returns an error or nil.
ReadinessCheck(err) ==
    /\ health.req.pc = "checks"
    /\ Len(health.req.checks) < health.checkers
    /\ health' = [health EXCEPT
          !.req.checks = Append(@, IF err THEN "error" ELSE "ok"),
          !.req.allOK = @ /\ ~err]
    /\ UNCHANGED HealthFrame

\* ReadinessHandler: the loop is over, the status code is written.
ReadinessRespond ==
    /\ health.req.pc = "checks"
    /\ Len(health.req.checks) = health.checkers
    /\ health' = [health EXCEPT
          !.req.pc = "done",
          !.req.code = IF health.req.allOK THEN StatusOK
                       ELSE StatusServiceUnavailable]
    /\ UNCHANGED HealthFrame

\* NewHandler(clk, checkers...): the flag unset, any number of checkers.
InitHealth ==
    /\ auctions = {}
    /\ heap = [id \in AuctionIds |-> NoAuction]
    /\ store = {}
    /\ players = [d \in DiscordIds |->
                    [registered |-> FALSE, ID |-> 0, DKP |-> 0]]
    /\ cmds = [p \in Procs |-> Idle]
    /\ phase = "serving"
    /\ recovery = [n |-> 0, err |-> FALSE, skipped |-> {}]
    /\ restarts = 0
    /\ now = 1
    /\ agg = NoAuction
    /\ dkpOps = 0
    /\ lease = NoReplica
    /\ replicas = <<>>
    /\ \E n \in 0..MaxCheckers :
          health = [ready |-> FALSE, checkers |-> n, req |-> NoRequest]
    /\ db = NoTables
    /\ locks = NoLocks

NextHealth ==
    \/ \E ready \in BOOLEAN : SetReady(ready)
    \/ ReadinessBegin
    \/ \E err \in BOOLEAN : ReadinessCheck(err)
    \/ ReadinessRespond

SpecHealth == InitHealth /\ [][NextHealth]_vars

\* C27: /readyz answers 200 if and only if the handler found the ready flag
\* set and every registered checker returned no error; in every other case
\* (flag unset, or a checker failing) it answers 503.
C27_ReadinessCode ==
    health.req.pc = "done" =>
        LET req == health.req
            pass == /\ req.ready
                    /\ Len(req.checks) = health.checkers
                    /\ \A i \in 1..Len(req.checks) : req.checks[i] = "ok"
        IN  /\ req.code = StatusOK <=> pass
            /\ req.code = StatusServiceUnavailable <=> ~pass

\* A request was answered with the flag set and two checkers, of which the
\* first failed and the second passed.
C27_Witness ==
    /\ health.req.pc = "done"
    /\ health.req.ready
    /\ health.req.checks = <<"error", "ok">>

----------------------------------------------------------------------------
(* The AuctionRepository of the sqlx adapter and of the ent adapter, run   *)
(* side by side on the same calls.                                         *)

MaxRows == 2

AdapterFrame == <<auctions, heap, store, players, cmds, phase, recovery,
                  restarts, now, agg, dkpOps, lease, replicas, health,
                  locks>>

\* The status that AuctionRepo.Cancel of an adapter writes.
CancelStatus(x) == IF x = "sqlx" THEN "cancelled" ELSE "canceled"

\* AuctionRepo.Create: INSERT ... RETURNING id, status 'open'.
RepoCreateRows(rows, minBid) ==
    rows \cup {[id |-> Cardinality(rows) + 1, min_bid |-> minBid,
                status |-> "open", winner_id |-> 0, win_amount |-> 0]}

\* UPDATE auctions SET ... WHERE id = $id AND status = 'open': the rows
\* it matches.
OpenRows(rows, id) == {r \in rows : r.id = id /\ r.status = "open"}

\* AuctionRepo.Close: the table afterwards.
RepoCloseRows(rows, id, winnerID, amount) ==
    (rows \ OpenRows(rows, id))
        \cup {[r EXCEPT !.status = "closed", !.winner_id = winnerID,
                        !.win_amount = amount] : r \in OpenRows(rows, id)}

\* AuctionRepo.Cancel: the table afterwards.
RepoCancelRows(x, rows, id) ==
    (rows \ OpenRows(rows, id))
        \cup {[r EXCEPT !.status = CancelStatus(x)] : r \in OpenRows(rows, id)}

\* AuctionRepo.Close / Cancel: no row affected is an error.
RepoUpdateOutcome(rows, id) ==
    IF OpenRows(rows, id) = {} THEN "not found or already closed" ELSE Ok

\* AuctionRepo.Create called on both adapters.
RepoCreate(minBid) ==
    /\ \A x \in Adapters : Cardinality(db.rows[x]) < MaxRows
    /\ db' = [rows |-> [x \in Adapters |->
                           RepoCreateRows(db.rows[x], minBid)],
              out |-> [x \in Adapters |-> Ok]]
    /\ UNCHANGED AdapterFrame

\* AuctionRepo.Close called on both adapters.
RepoClose(id, winnerID, amount) ==
    /\ db' = [rows |-> [x \in Adapters |->
                           RepoCloseRows(db.rows[x], id, winnerID, amount)],
              out |-> [x \in Adapters |->
                           RepoUpdateOutcome(db.rows[x], id)]]
    /\ UNCHANGED AdapterFrame

\* AuctionRepo.Cancel called on both adapters.
RepoCancel(id) ==
    /\ db' = [rows |-> [x \in Adapters |->
                           RepoCancelRows(x, db.rows[x], id)],
              out |-> [x \in Adapters |->
                           RepoUpdateOutcome(db.rows[x], id)]]
    /\ UNCHANGED AdapterFrame

InitAdapters ==
    /\ auctions = {}
    /\ heap = [id \in AuctionIds |-> NoAuction]
    /\ store = {}
    /\ players = [d \in DiscordIds |->
                    [registered |-> FALSE, ID |-> 0, DKP |-> 0]]
    /\ cmds = [p \in Procs |-> Idle]
    /\ phase = "serving"
    /\ recovery = [n |-> 0, err |-> FALSE, skipped |-> {}]
    /\ restarts = 0
    /\ now = 1
    /\ InitOther

NextAdapters ==
    \/ \E minBid \in {0} \cup MinBids : RepoCreate(minBid)
    \/ \E id \in 1..MaxRows, d \in {1, 2}, amount \in Amounts :
          RepoClose(id, PlayerID(d), amount)
    \/ \E id \in 1..MaxRows : RepoCancel(id)

SpecAdapters == InitAdapters /\ [][NextAdapters]_vars

\* C28: the sqlx adapter and the ent adapter are interchangeable: after the
\* same calls on the same initial database both have returned the same
\* outcome and hold the same rows, the status written by
\* AuctionRepository.Cancel included.
C28_AdaptersAgree ==
    /\ db.rows["sqlx"] = db.rows["ent"]
    /\ db.out["sqlx"] = db.out["ent"]

----------------------------------------------------------------------------
(* AwardDKP / DeductDKP for a player id without a row.                     *)

\* A dkp call goes on to its Append only for a player id that has a row,
\* and every dkp event in the log is of a player id that has a row.
DkpOnlyForPlayers ==
    /\ \A p \in Procs :
          (cmds[p].op \in {"award", "deduct"} /\ cmds[p].pc = "append")
              => RowWithID(cmds[p].player) # 0
    /\ \A e \in store :
          e.Type \in {DKPAwarded, DKPDeducted} => RowWithID(e.AggregateID) # 0

\* A dkp call that ends at UpdateDKP returns its error and leaves every
\* balance and the log as they were.
DkpFailureChangesNothing ==
    \A p \in Procs :
        (/\ cmds[p].pc = "idle"
         /\ cmds'[p].op \in {"award", "deduct"}
         /\ cmds'[p].pc = "done")
        => /\ cmds'[p].res = ErrUpdate
           /\ players' = players /\ store' = store

\* C29: AwardDKP or DeductDKP for a player id that does not exist returns
\* an error, changes no player's balance and appends no event.
C29_UnknownPlayerChangesNothing ==
    /\ []DkpOnlyForPlayers
    /\ [][DkpFailureChangesNothing]_vars

\* A DeductDKP has returned the error while the players table and the log
\* were empty, and still are.
C29_Witness ==
    /\ \E p \in Procs :
          /\ cmds[p].op = "deduct" /\ cmds[p].pc = "done"
          /\ cmds[p].res = ErrUpdate
    /\ \A d \in DiscordIds : ~players[d].registered
    /\ store = {}

----------------------------------------------------------------------------
(* The amounts of the bids.                                                *)

\* C30: every bid in the auction's Bids, and every auction.bid_placed
\* event the aggregate has recorded, has amount > 0, for every min_bid that
\* StartAuction accepts (0 included) and every balance of the bidder.
C30_BidsArePositive ==
    agg # NoAuction =>
        /\ \A i \in 1..Len(agg.Bids) : agg.Bids[i].Amount > 0
        /\ \A i \in 1..Len(agg.events) :
              agg.events[i].Type = AuctionBidPlaced
                  => agg.events[i].Data.Amount > 0

----------------------------------------------------------------------------
(* Rejected commands on the aggregate, and the order of PlaceBid's guards. *)

\* C31: a PlaceBid, Close or Cancel that returns an error leaves Status,
\* Bids, Version and the buffer of pending events of the aggregate as they
\* were; a self-outbid attempt among them.
C31_RejectedCommandChangesNothing ==
    (/\ cmds[1].pc = "done"
     /\ cmds[1].op \in {"bid", "close", "cancel"}
     /\ cmds[1].res # Ok)
    => /\ agg.Status = heap[1].Status
       /\ agg.Bids = heap[1].Bids
       /\ agg.Version = heap[1].Version
       /\ agg.events = heap[1].events

\* The highest bidder has bid above their own bid, within the minimum and
\* their balance, and was rejected.
C31_Witness ==
    /\ cmds[1].op = "bid" /\ cmds[1].pc = "done"
    /\ cmds[1].res = ErrSelfOutbid
    /\ heap[1] # NoAuction
    /\ Len(heap[1].Bids) = 1
    /\ cmds[1].amount > heap[1].Bids[1].Amount
    /\ Len(agg.events) = 2

\* C32: PlaceBid reports the first guard that fails, in the order: auction
\* not open, amount below MinBid, amount above the bidder's balance, bidder
\* already the highest bidder, amount not above the highest bid. A bid of
\* the highest bidder that passes the first three is ErrSelfOutbid whatever
\* its amount.
C32_GuardOrder ==
    (cmds[1].pc = "done" /\ cmds[1].op = "bid" /\ heap[1] # NoAuction) =>
        LET a == heap[1]
            c == cmds[1]
            notOpen == a.Status # "open"
            belowMin == c.amount < a.MinBid
            aboveBalance == c.amount > c.dkp
            hasBid == Len(a.Bids) > 0
            self == hasBid /\ a.Bids[Len(a.Bids)].PlayerID = c.player
            notAbove == hasBid /\ c.amount <= a.Bids[Len(a.Bids)].Amount
        IN  /\ notOpen => c.res = ErrAuctionClosed
            /\ (~notOpen /\ belowMin) => c.res = ErrBidTooLow
            /\ (~notOpen /\ ~belowMin /\ aboveBalance)
                  => c.res = ErrInsufficientDKP
            /\ (~notOpen /\ ~belowMin /\ ~aboveBalance /\ self)
                  => c.res = ErrSelfOutbid
            /\ (~notOpen /\ ~belowMin /\ ~aboveBalance /\ ~self /\ notAbove)
                  => c.res = ErrBidTooLow
            /\ (~notOpen /\ ~belowMin /\ ~aboveBalance /\ ~self /\ ~notAbove)
                  => c.res = Ok

\* The highest bidder has bid no more than their own bid, within the
\* minimum and their balance: both guards on the highest bid fail, and the
\* call returned ErrSelfOutbid.
C32_Witness ==
    /\ cmds[1].op = "bid" /\ cmds[1].pc = "done"
    /\ cmds[1].res = ErrSelfOutbid
    /\ heap[1] # NoAuction
    /\ Len(heap[1].Bids) > 0
    /\ cmds[1].amount <= heap[1].Bids[Len(heap[1].Bids)].Amount

----------------------------------------------------------------------------
(* The batches that the coordinator appends.                               *)

\* The event that the command of goroutine p emitted: for PlaceBid the
\* auction.bid_placed of its bidder and amount, for CloseAuction the
\* auction.closed.
OwnEvent(c, e) ==
    /\ e.AggregateID = c.id
    /\ IF c.op = "bid"
       THEN /\ e.Type = AuctionBidPlaced
            /\ e.Data.PlayerID = c.player
            /\ e.Data.Amount = c.amount
       ELSE e.Type = AuctionClosed

\* C33: every Append issued from PlaceBid or CloseAuction carries a batch
\* of exactly one event, the one emitted by the command that issues it,
\* under any interleaving of the commands on the auction.
C33_BatchIsOwnEvent ==
    \A p \in Procs :
        (cmds[p].op \in {"bid", "close"} /\ cmds[p].pc = "append")
            => /\ Len(cmds[p].batch) = 1
               /\ OwnEvent(cmds[p], cmds[p].batch[1])

----------------------------------------------------------------------------
(* Bids of the coordinator against balances that the dkp Manager changes.  *)

\* The coordinator's StartAuction and PlaceBid side by side with the dkp
\* Manager's AwardDKP and DeductDKP of one point on the first player of
\* Init.
NextFunds ==
    \/ \E p \in Procs, id \in AuctionIds, minBid \in MinBids,
          ioerr \in BOOLEAN : StartAuctionAppend(p, id, minBid, ioerr)
    \/ \E p \in Procs : StartAuctionInsert(p)
    \/ \E p \in Procs, id \in AuctionIds, d \in DiscordIds,
          amount \in Amounts : PlaceBidLookup(p, id, d, amount)
    \/ \E p \in Procs, ioerr \in BOOLEAN : PlaceBidGetPlayer(p, ioerr)
    \/ \E p \in Procs : PlaceBidAggregate(p)
    \/ \E p \in Procs : DrainPending(p)
    \/ \E p \in Procs, ioerr \in BOOLEAN : PlaceBidAppend(p, ioerr)
    \/ \E p \in Procs, op \in {"award", "deduct"}, ioerr \in BOOLEAN :
          DkpUpdate(p, op, PlayerID(1), 1, ioerr)
    \/ \E p \in Procs, ioerr \in BOOLEAN : DkpAppend(p, ioerr)
    \/ \E p \in Procs : Return(p)

SpecFunds == Init /\ [][NextFunds]_vars

\* The aggregate accepts the bid of goroutine p in this step only if the
\* amount is within the balance that the players table holds for the
\* bidder in this step.
AcceptedWithinBalance ==
    \A p \in Procs :
        (/\ cmds[p].op = "bid" /\ cmds[p].pc = "aggregate"
         /\ cmds'[p].op = "bid" /\ cmds'[p].pc = "drain")
        => cmds[p].amount <= players[cmds[p].discord].DKP

\* C34: Manager.PlaceBid accepts a bid only if its amount does not exceed
\* the bidder's balance in the players table at the moment the aggregate
\* accepts it, under any interleaving with DeductDKP and AwardDKP on the
\* bidder.
C34_BidWithinCurrentBalance == [][AcceptedWithinBalance]_vars

----------------------------------------------------------------------------
(* Two dkp calls at a time on the players of Init.                         *)

\* AwardDKP and DeductDKP from two goroutines, each call kept as it
\* returned.
NextLedger ==
    \/ \E p \in Procs, op \in {"award", "deduct"}, d \in DiscordIds,
          amount \in Amounts, ioerr \in BOOLEAN :
          DkpUpdate(p, op, PlayerID(d), amount, ioerr)
    \/ \E p \in Procs, ioerr \in BOOLEAN : DkpAppend(p, ioerr)

SpecLedger == Init /\ [][NextLedger]_vars

\* What the call of goroutine p added to the balance of this player: its
\* amount when it awarded, minus its amount when it deducted, 0 when it
\* returned an error or was for another player.
Applied(p, playerID) ==
    IF cmds[p].pc = "done" /\ cmds[p].res = Ok /\ cmds[p].player = playerID
    THEN IF cmds[p].op = "award" THEN cmds[p].amount ELSE -cmds[p].amount
    ELSE 0

\* C35: concurrent AwardDKP and DeductDKP on a player lose no update: once
\* all calls have returned, the balance is the initial balance plus the
\* awarded and minus the deducted amounts of the calls that succeeded.
C35_NoLostUpdate ==
    (\A p \in Procs : cmds[p].pc \in {"idle", "done"})
        => \A d \in DiscordIds :
              players[d].registered =>
                 players[d].DKP =
                     StartingDKP(d) + Applied(1, PlayerID(d))
                                    + Applied(2, PlayerID(d))

\* An award and a deduction on the same player ran side by side (both had
\* updated the balance before either appended its event) and have returned.
C35_Witness ==
    /\ cmds[1].pc = "done" /\ cmds[1].res = Ok
    /\ cmds[2].pc = "done" /\ cmds[2].res = Ok
    /\ cmds[1].player = cmds[2].player
    /\ cmds[1].op # cmds[2].op
    /\ cmds[1].amount # cmds[2].amount

----------------------------------------------------------------------------
(* Readiness of the replicas under leader election.                        *)

\* C36: a replica's ready flag is set only while the replica holds the
\* lease and its gateway session has been started; a standby that never
\* acquired the lease is never ready.
C36_ReadyOnlyWhileLeading ==
    \A r \in Replicas :
        replicas[r].ready => (lease = r /\ replicas[r].gateway)

----------------------------------------------------------------------------
(* Loss of leadership up to the end of the process.                        *)

\* The process of a replica that has returned from run and is not started
\* again.
Exited == [Standby EXCEPT !.elector = "exited"]

\* run returns once leader.Run has returned; the process exits (its
\* gateway session and its ready flag with it) and the pod is not started
\* again.
ProcessHalt(r) ==
    /\ replicas[r].elector = "stopped"
    /\ restarts = MaxRestarts
    /\ replicas' = [replicas EXCEPT ![r] = Exited]
    /\ UNCHANGED <<store, lease, restarts>>
    /\ UNCHANGED LeaderVars

NextLeaderLive ==
    \/ \E r \in Replicas : Acquire(r)
    \/ \E r \in Replicas, loadErr \in BOOLEAN : LeaderRecover(r, loadErr)
    \/ \E r \in Replicas, outcome \in {"ok", "openFailed", "registerFailed"} :
          LeaderBotStart(r, outcome)
    \/ \E r \in Replicas : Release(r)
    \/ \E r \in Replicas : StoppedLeading(r)
    \/ \E r \in Replicas : BotStop(r)
    \/ \E r \in Replicas : ProcessExit(r)
    \/ \E r \in Replicas : ProcessHalt(r)
    \/ \E r \in Replicas, id \in AuctionIds, minBid \in MinBids :
          DispatchStart(r, id, minBid)
    \/ \E r \in Replicas, id \in AuctionIds : DispatchClose(r, id)

\* The goroutines of a process are scheduled: the elector that gave the
\* lease up returns, startBot sees its cancelled context, run returns.
SpecLeaderLive ==
    /\ InitLeader
    /\ [][NextLeaderLive]_vars
    /\ \A r \in Replicas :
          /\ WF_vars(StoppedLeading(r))
          /\ WF_vars(BotStop(r))
          /\ WF_vars(ProcessExit(r))
          /\ WF_vars(ProcessHalt(r))

\* The process of replica r has ended: run has returned, no gateway
\* session is open and the ready flag is gone (a pod started again is a
\* fresh standby).
ShutDown(r) ==
    /\ replicas[r].elector \in {"acquiring", "exited"}
    /\ replicas[r].pc = "none"
    /\ ~replicas[r].gateway
    /\ ~replicas[r].ready

\* C37: when the leading replica loses leadership, the on-lost callback
\* cancels the process context and the replica eventually stops its
\* gateway, withdraws readiness and returns from run; a process that has
\* returned from run handles no command any more.
C37_LossLeadsToShutdown ==
    /\ \A r \in Replicas :
          (replicas[r].elector = "released") ~> ShutDown(r)
    /\ [][\A r \in Replicas :
             replicas[r].elector = "released"
                => (replicas'[r].elector = "released"
                      \/ (replicas'[r].elector = "stopped"
                            /\ replicas'[r].ctxDone))]_vars
    /\ [][\A r \in Replicas :
             replicas[r] = Exited => replicas'[r] = Exited]_vars

\* A replica that served commands has lost leadership and its process has
\* ended for good, while the other replica leads.
C37_Witness ==
    \E r, q \in Replicas :
        /\ replicas[r] = Exited
        /\ lease = q /\ replicas[q].pc = "serving" /\ replicas[q].gateway
        /\ store # {}

----------------------------------------------------------------------------
(* The version of the first event after a failover.                        *)

\* The auctions of replica r's live table that the step closes.
ClosedInStep(r) ==
    {a \in replicas[r].table :
        \A b \in replicas'[r].table : b.ID # a.ID}

\* A command of the lease holder on an auction of its recovered table
\* emits the version that follows the last one in the log.
NextVersionFollowsLog ==
    \A r \in Replicas :
        (lease = r /\ replicas[r].recovered /\ replicas[r].pc = "serving"
           /\ replicas'[r].pc = "serving")
        => \A a \in ClosedInStep(r) :
              /\ a.Version \in StoredVersions(a.ID)
              /\ \A v \in StoredVersions(a.ID) : v <= a.Version

\* C38: after a failover the first command accepted on an auction that
\* RecoverOpenAuctions recovered emits the event whose version is the last
\* persisted version of the auction plus one, so that its Append meets no
\* version conflict.
C38_RecoveredVersionFollowsLog == [][NextVersionFollowsLog]_vars

----------------------------------------------------------------------------
(* The locks of the coordinator and of the aggregates.                     *)

\* A goroutine of the lock-level model: the call it runs, its position in
\* the code, its arguments and its locals (a: the aggregate that New or
\* ReplayAuction returned to it; todo: the ids RecoverOpenAuctions has still
\* to replay).
Parked ==
    [op |-> "none", pc |-> "idle", id |-> 0, discord |-> 0, amount |-> 0,
     player |-> 0, dkp |-> 0, a |-> NoAuction, batch |-> <<>>,
     todo |-> <<>>, res |-> ""]

Returned(c, res) ==
    [Parked EXCEPT !.op = c.op, !.pc = "done", !.id = c.id, !.res = res]

\* sync.RWMutex.Lock returns when nobody holds the mutex.
CanLock(l) == l.w = 0 /\ l.r = {}
\* sync.RWMutex.RLock returns when no writer holds the mutex and no writer
\* is blocked in Lock.
CanRLock(l, writerWaits) == l.w = 0 /\ ~writerWaits

\* A goroutine is about to call m.mu.Lock.
TableWriterWaits == \E q \in Procs : cmds[q].pc = "tableLock"
\* A goroutine is about to call a.mu.Lock on the shared aggregate of id.
AggWriterWaits(id) ==
    \E q \in Procs :
        /\ cmds[q].pc \in {"aggLock", "pendingLock"}
        /\ cmds[q].op # "start"
        /\ cmds[q].id = id

LockFrame == <<players, phase, recovery, restarts, now, agg, dkpOps, lease,
               replicas, health, db>>

RECURSIVE IdsInOrder(_)
\* The ids of RecoverOpenAuctions' loop, in the order of the slice.
IdsInOrder(ids) ==
    IF ids = {} THEN <<>>
    ELSE LET id == CHOOSE i \in ids : \A j \in ids : i <= j
         IN  <<id>> \o IdsInOrder(ids \ {id})

\* Manager.StartAuction up to the call of PendingEvents: New builds the
\* aggregate, which only this goroutine can reach.
LockStartAuction(p, id, minBid) ==
    /\ Free(p)
    /\ cmds' = [cmds EXCEPT ![p] =
          [Parked EXCEPT !.op = "start", !.pc = "pendingLock", !.id = id,
                         !.a = New(id, "item", "admin", minBid)]]
    /\ UNCHANGED <<auctions, heap, store, locks>>
    /\ UNCHANGED LockFrame

\* Manager.PlaceBid up to m.mu.RLock.
LockPlaceBid(p, id, discord, amount) ==
    /\ Free(p)
    /\ cmds' = [cmds EXCEPT ![p] =
          [Parked EXCEPT !.op = "bid", !.pc = "lookupLock", !.id = id,
                         !.discord = discord, !.amount = amount]]
    /\ UNCHANGED <<auctions, heap, store, locks>>
    /\ UNCHANGED LockFrame

\* Manager.CloseAuction up to m.mu.RLock.
LockCloseAuction(p, id) ==
    /\ Free(p)
    /\ cmds' = [cmds EXCEPT ![p] =
          [Parked EXCEPT !.op = "close", !.pc = "lookupLock", !.id = id]]
    /\ UNCHANGED <<auctions, heap, store, locks>>
    /\ UNCHANGED LockFrame

\* A caller that holds the pointer to an aggregate calls HighestBid.
LockHighestBid(p, id) ==
    /\ Free(p)
    /\ heap[id] # NoAuction
    /\ cmds' = [cmds EXCEPT ![p] =
          [Parked EXCEPT !.op = "highest", !.pc = "readLock", !.id = id]]
    /\ UNCHANGED <<auctions, heap, store, locks>>
    /\ UNCHANGED LockFrame

\* Manager.RecoverOpenAuctions up to LoadByType.
LockRecover(p) ==
    /\ Free(p)
    /\ cmds' = [cmds EXCEPT ![p] =
          [Parked EXCEPT !.op = "recover", !.pc = "loadByType"]]
    /\ UNCHANGED <<auctions, heap, store, locks>>
    /\ UNCHANGED LockFrame

\* m.mu.RLock of the lookup in PlaceBid and CloseAuction.
LookupRLock(p) ==
    /\ cmds[p].pc = "lookupLock"
    /\ CanRLock(locks.mu, TableWriterWaits)
    /\ locks' = [locks EXCEPT !.mu.r = @ \cup {p}]
    /\ cmds' = [cmds EXCEPT ![p].pc = "lookup"]
    /\ UNCHANGED <<auctions, heap, store>>
    /\ UNCHANGED LockFrame

\* The lookup with the read lock kept for the rest of the call (as with a
\* deferred m.mu.RUnlock, which this variant never reaches): a faulty
\* variant.
LookupKeepsRLock(p) ==
    /\ cmds[p].pc = "lookup"
    /\ cmds' = [cmds EXCEPT ![p] =
          IF cmds[p].id \notin auctions THEN Returned(cmds[p], ErrNotFound)
          ELSE [cmds[p] EXCEPT !.pc = IF cmds[p].op = "bid"
                                      THEN "getPlayer" ELSE "aggLock"]]
    /\ UNCHANGED <<auctions, heap, store, locks>>
    /\ UNCHANGED LockFrame

\* a, ok := m.auctions[auctionID]; m.mu.RUnlock(); the return when !ok.
LookupRUnlock(p) ==
    /\ cmds[p].pc = "lookup"
    /\ locks' = [locks EXCEPT !.mu.r = @ \ {p}]
    /\ cmds' = [cmds EXCEPT ![p] =
          IF cmds[p].id \notin auctions THEN Returned(cmds[p], ErrNotFound)
          ELSE [cmds[p] EXCEPT !.pc = IF cmds[p].op = "bid"
                                      THEN "getPlayer" ELSE "aggLock"]]
    /\ UNCHANGED <<auctions, heap, store>>
    /\ UNCHANGED LockFrame

\* m.players.GetByDiscordID in PlaceBid.
LockGetPlayer(p, ioerr) ==
    /\ cmds[p].pc = "getPlayer"
    /\ LET row == players[cmds[p].discord]
       IN  cmds' = [cmds EXCEPT ![p] =
              IF ioerr \/ ~row.registered
              THEN Returned(cmds[p], ErrNotRegistered)
              ELSE [cmds[p] EXCEPT !.pc = "aggLock", !.player = row.ID,
                                   !.dkp = row.DKP]]
    /\ UNCHANGED <<auctions, heap, store, locks>>
    /\ UNCHANGED LockFrame

\* a.mu.Lock at the head of Auction.PlaceBid and Auction.Close.
AggLock(p) ==
    /\ cmds[p].pc = "aggLock"
    /\ CanLock(locks.a[cmds[p].id])
    /\ locks' = [locks EXCEPT !.a[cmds[p].id].w = p]
    /\ cmds' = [cmds EXCEPT ![p].pc = "agg"]
    /\ UNCHANGED <<auctions, heap, store>>
    /\ UNCHANGED LockFrame

\* The body of Auction.PlaceBid or Auction.Close and the deferred
\* a.mu.Unlock; the caller returns the method's error.
AggUnlock(p) ==
    /\ cmds[p].pc = "agg"
    /\ LET c == cmds[p]
           a == heap[c.id]
           err == IF c.op = "bid"
                  THEN PlaceBidErr(a, c.player, c.amount, c.dkp)
                  ELSE CloseErr(a)
           b == IF c.op = "bid"
                THEN PlaceBid(a, c.player, c.amount, c.dkp, now)
                ELSE Close(a)
       IN  /\ heap' = [heap EXCEPT ![c.id] = b]
           /\ locks' = [locks EXCEPT !.a[c.id].w = 0]
           /\ cmds' = [cmds EXCEPT ![p] =
                 IF err # Ok THEN Returned(c, err)
                 ELSE [c EXCEPT !.pc = "pendingLock"]]
    /\ UNCHANGED <<auctions, store>>
    /\ UNCHANGED LockFrame

\* a.mu.Lock at the head of Auction.PendingEvents: on the aggregate New has
\* just built in StartAuction, on the shared one otherwise.
PendingLock(p) ==
    /\ cmds[p].pc = "pendingLock"
    /\ IF cmds[p].op = "start"
       THEN /\ CanLock(locks.new[p])
            /\ locks' = [locks EXCEPT !.new[p].w = p]
       ELSE /\ CanLock(locks.a[cmds[p].id])
            /\ locks' = [locks EXCEPT !.a[cmds[p].id].w = p]
    /\ cmds' = [cmds EXCEPT ![p].pc = "pending"]
    /\ UNCHANGED <<auctions, heap, store>>
    /\ UNCHANGED LockFrame

\* The body of Auction.PendingEvents and the deferred a.mu.Unlock.
PendingUnlock(p) ==
    /\ cmds[p].pc = "pending"
    /\ LET c == cmds[p]
       IN  IF c.op = "start"
           THEN /\ cmds' = [cmds EXCEPT ![p] =
                      [c EXCEPT !.pc = "append", !.batch = c.a.events,
                                !.a = PendingEvents(c.a)]]
                /\ locks' = [locks EXCEPT !.new[p].w = 0]
                /\ UNCHANGED heap
           ELSE /\ cmds' = [cmds EXCEPT ![p] =
                      [c EXCEPT !.pc = "append",
                                !.batch = heap[c.id].events]]
                /\ heap' = [heap EXCEPT ![c.id] = PendingEvents(heap[c.id])]
                /\ locks' = [locks EXCEPT !.a[c.id].w = 0]
    /\ UNCHANGED <<auctions, store>>
    /\ UNCHANGED LockFrame

\* m.events.Append: StartAuction returns its error, PlaceBid and
\* CloseAuction log it; PlaceBid returns, the two others go on to m.mu.Lock.
LockAppend(p, ioerr) ==
    /\ cmds[p].pc = "append"
    /\ LET c == cmds[p]
           failed == ioerr \/ Conflicts(store, c.batch)
       IN  /\ store' = IF failed THEN store
                       ELSE store \cup Inserted(c.batch, now)
           /\ cmds' = [cmds EXCEPT ![p] =
                 IF c.op = "start" /\ failed THEN Returned(c, ErrPersist)
                 ELSE IF c.op = "bid" THEN Returned(c, Ok)
                 ELSE [c EXCEPT !.pc = "tableLock"]]
    /\ UNCHANGED <<auctions, heap, locks>>
    /\ UNCHANGED LockFrame

\* m.mu.Lock in StartAuction, CloseAuction and RecoverOpenAuctions.
TableLock(p) ==
    /\ cmds[p].pc = "tableLock"
    /\ CanLock(locks.mu)
    /\ locks' = [locks EXCEPT !.mu.w = p]
    /\ cmds' = [cmds EXCEPT ![p].pc = "table"]
    /\ UNCHANGED <<auctions, heap, store>>
    /\ UNCHANGED LockFrame

\* m.auctions[id] = a (StartAuction, RecoverOpenAuctions) or
\* delete(m.auctions, auctionID) (CloseAuction), and m.mu.Unlock.
\* RecoverOpenAuctions goes round its loop.
TableUnlock(p) ==
    /\ cmds[p].pc = "table"
    /\ LET c == cmds[p]
       IN  /\ auctions' = IF c.op = "close" THEN auctions \ {c.id}
                          ELSE auctions \cup {c.id}
           /\ heap' = IF c.op = "close" THEN heap
                      ELSE [heap EXCEPT ![c.id] = c.a]
           /\ cmds' = [cmds EXCEPT ![p] =
                 IF c.op = "recover"
                 THEN [c EXCEPT !.pc = "replay", !.a = NoAuction]
                 ELSE Returned(c, Ok)]
    /\ locks' = [locks EXCEPT !.mu.w = 0]
    /\ UNCHANGED store
    /\ UNCHANGED LockFrame

\* a.mu.RLock at the head of Auction.HighestBid.
ReadRLock(p) ==
    /\ cmds[p].pc = "readLock"
    /\ CanRLock(locks.a[cmds[p].id], AggWriterWaits(cmds[p].id))
    /\ locks' = [locks EXCEPT !.a[cmds[p].id].r = @ \cup {p}]
    /\ cmds' = [cmds EXCEPT ![p].pc = "read"]
    /\ UNCHANGED <<auctions, heap, store>>
    /\ UNCHANGED LockFrame

\* return a.highestBid() and the deferred a.mu.RUnlock.
ReadRUnlock(p) ==
    /\ cmds[p].pc = "read"
    /\ locks' = [locks EXCEPT !.a[cmds[p].id].r = @ \ {p}]
    /\ cmds' = [cmds EXCEPT ![p] =
          [Returned(cmds[p], Ok) EXCEPT
              !.amount = highestBid(heap[cmds[p].id]).Amount]]
    /\ UNCHANGED <<auctions, heap, store>>
    /\ UNCHANGED LockFrame

\* RecoverOpenAuctions: LoadByType and the deduplication of the ids.
LockLoadByType(p, loadErr) ==
    /\ cmds[p].pc = "loadByType"
    /\ cmds' = [cmds EXCEPT ![p] =
          IF loadErr THEN Returned(cmds[p], "loading auction started events")
          ELSE [cmds[p] EXCEPT !.pc = "replay",
                               !.todo = IdsInOrder(StartedIds(store))]]
    /\ UNCHANGED <<auctions, heap, store, locks>>
    /\ UNCHANGED LockFrame

\* RecoverOpenAuctions: one round of the loop up to m.mu.Lock. A replay
\* error and an auction that is not open are skipped; after the last id the
\* call returns.
LockReplay(p, loadErr) ==
    /\ cmds[p].pc = "replay"
    /\ LET c == cmds[p]
       IN  cmds' = [cmds EXCEPT ![p] =
              IF c.todo = <<>> THEN Returned(c, Ok)
              ELSE LET a == Replay(Load(store, Head(c.todo)))
                   IN  IF loadErr \/ a.Status # "open"
                       THEN [c EXCEPT !.todo = Tail(c.todo)]
                       ELSE [c EXCEPT !.pc = "tableLock", !.a = a,
                                      !.id = Head(c.todo),
                                      !.todo = Tail(c.todo)]]
    /\ UNCHANGED <<auctions, heap, store, locks>>
    /\ UNCHANGED LockFrame

\* The caller has the result: the goroutine is free again.
LockReturn(p) ==
    /\ cmds[p].pc = "done"
    /\ cmds' = [cmds EXCEPT ![p] = Parked]
    /\ UNCHANGED <<auctions, heap, store, locks>>
    /\ UNCHANGED LockFrame

InitLocks ==
    /\ auctions = {}
    /\ heap = [id \in AuctionIds |-> NoAuction]
    /\ store = {}
    /\ players = [d \in DiscordIds |->
                    IF d = 1 THEN [registered |-> TRUE, ID |-> PlayerID(1),
                                   DKP |-> MaxAmount]
                    ELSE IF d = 2
                    THEN [registered |-> TRUE, ID |-> PlayerID(2),
                          DKP |-> MaxAmount]
                    ELSE [registered |-> FALSE, ID |-> 0, DKP |-> 0]]
    /\ cmds = [p \in Procs |-> Parked]
    /\ phase = "serving"
    /\ recovery = [n |-> 0, err |-> FALSE, skipped |-> {}]
    /\ restarts = 0
    /\ now = 1
    /\ InitOther

\* The next step of the call that goroutine p runs.
LockStep(p) ==
    \/ LookupRLock(p)
    \/ LookupRUnlock(p)
    \/ \E ioerr \in BOOLEAN : LockGetPlayer(p, ioerr)
    \/ AggLock(p)
    \/ AggUnlock(p)
    \/ PendingLock(p)
    \/ PendingUnlock(p)
    \/ \E ioerr \in BOOLEAN : LockAppend(p, ioerr)
    \/ TableLock(p)
    \/ TableUnlock(p)
    \/ ReadRLock(p)
    \/ ReadRUnlock(p)
    \/ \E loadErr \in BOOLEAN : LockLoadByType(p, loadErr)
    \/ \E loadErr \in BOOLEAN : LockReplay(p, loadErr)

NextLocks ==
    \/ \E p \in Procs, id \in AuctionIds : LockStartAuction(p, id, 1)
    \/ \E p \in Procs, id \in AuctionIds, d \in {1, 3},
          amount \in Amounts : LockPlaceBid(p, id, d, amount)
    \/ \E p \in Procs, id \in AuctionIds : LockCloseAuction(p, id)
    \/ \E p \in Procs, id \in AuctionIds : LockHighestBid(p, id)
    \/ \E p \in Procs : LockRecover(p)
    \/ \E p \in Procs : LookupRLock(p)
    \/ \E p \in Procs : LookupRUnlock(p)
    \/ \E p \in Procs, ioerr \in BOOLEAN : LockGetPlayer(p, ioerr)
    \/ \E p \in Procs : AggLock(p)
    \/ \E p \in Procs : AggUnlock(p)
    \/ \E p \in Procs : PendingLock(p)
    \/ \E p \in Procs : PendingUnlock(p)
    \/ \E p \in Procs, ioerr \in BOOLEAN : LockAppend(p, ioerr)
    \/ \E p \in Procs : TableLock(p)
    \/ \E p \in Procs : TableUnlock(p)
    \/ \E p \in Procs : ReadRLock(p)
    \/ \E p \in Procs : ReadRUnlock(p)
    \/ \E p \in Procs, loadErr \in BOOLEAN : LockLoadByType(p, loadErr)
    \/ \E p \in Procs, loadErr \in BOOLEAN : LockReplay(p, loadErr)
    \/ \E p \in Procs : LockReturn(p)

SpecLocks == InitLocks /\ [][NextLocks]_vars

\* The goroutine holds the coordinator's table lock.
HoldsTable(p) == locks.mu.w = p \/ p \in locks.mu.r

\* The goroutine holds the lock of an aggregate.
HoldsAggregate(p) ==
    \/ \E id \in AuctionIds : locks.a[id].w = p \/ p \in locks.a[id].r
    \/ \E q \in Procs : locks.new[q].w = p \/ p \in locks.new[q].r

\* The goroutine is at a call of Lock or RLock.
Acquiring(p) ==
    cmds[p].pc \in {"lookupLock", "aggLock", "pendingLock", "tableLock",
                    "readLock"}

\* C39: no interleaving of StartAuction, PlaceBid, CloseAuction,
\* RecoverOpenAuctions, HighestBid and PendingEvents deadlocks: no goroutine
\* holds the table lock together with an aggregate lock, a goroutine that
\* is acquiring a lock holds none, and a call that is under way can take
\* its next step unless it waits for another goroutine, one that holds a
\* lock or is a writer queued before it, and that one can take its next
\* step.
C39_NoLockNesting ==
    /\ \A p \in Procs : ~(HoldsTable(p) /\ HoldsAggregate(p))
    /\ \A p \in Procs :
          Acquiring(p) => ~HoldsTable(p) /\ ~HoldsAggregate(p)
    /\ \A p \in Procs :
          cmds[p].pc \notin {"idle", "done"}
          => \/ ENABLED LockStep(p)
             \/ \E q \in Procs \ {p} :
                   /\ \/ HoldsTable(q) \/ HoldsAggregate(q)
                      \/ cmds[q].pc \in {"tableLock", "aggLock",
                                         "pendingLock"}
                   /\ ENABLED LockStep(q)

\* Two calls are inside their critical sections at once, one under the
\* table lock and one under an aggregate lock, while the table is being
\* written.
C39_Witness ==
    /\ locks.mu.w = 1
    /\ locks.a[1].w = 2
    /\ cmds[2].op = "bid"

----------------------------------------------------------------------------
(* run with and without leader election.                                   *)

\* The process dies and a new one runs with leader election disabled: run
\* goes straight to bot.New and discordBot.Start; NewManager has made an
\* empty table and nothing fills it.
RunDirect ==
    /\ restarts < MaxRestarts
    /\ restarts' = restarts + 1
    /\ cmds' = [p \in Procs |-> Idle]
    /\ auctions' = {}
    /\ heap' = [id \in AuctionIds |-> NoAuction]
    /\ recovery' = [n |-> 0, err |-> FALSE, skipped |-> {}]
    /\ phase' = "recovered"
    /\ UNCHANGED <<store, players, now>>
    /\ UNCHANGED OtherVars

\* The coordinator on a process that is started again with either setting
\* of LeaderElection.Enabled; the store calls of the recovery succeed.
NextRun ==
    \/ \E p \in Procs, id \in AuctionIds, minBid \in MinBids,
          ioerr \in BOOLEAN : StartAuctionAppend(p, id, minBid, ioerr)
    \/ \E p \in Procs : StartAuctionInsert(p)
    \/ \E p \in Procs, id \in AuctionIds, d \in DiscordIds,
          amount \in Amounts : PlaceBidLookup(p, id, d, amount)
    \/ \E p \in Procs, ioerr \in BOOLEAN : PlaceBidGetPlayer(p, ioerr)
    \/ \E p \in Procs : PlaceBidAggregate(p)
    \/ \E p \in Procs : DrainPending(p)
    \/ \E p \in Procs, ioerr \in BOOLEAN : PlaceBidAppend(p, ioerr)
    \/ \E p \in Procs, id \in AuctionIds : CloseAuctionLookup(p, id)
    \/ \E p \in Procs : CloseAuctionAggregate(p)
    \/ \E p \in Procs, ioerr \in BOOLEAN : CloseAuctionAppend(p, ioerr)
    \/ \E p \in Procs : CloseAuctionDelete(p)
    \/ \E p \in Procs : Return(p)
    \/ \E loadErr \in {FALSE}, failed \in {{}} : Restart(loadErr, failed)
    \/ RunDirect
    \/ BotStart

SpecRun == Init /\ [][NextRun]_vars

\* The process opens its gateway session with every auction that is open
\* in the log in its live table.
OpensWithOpenAuctions ==
    (phase = "recovered" /\ phase' = "serving")
    => \A id \in AuctionIds : OpenInLog(id) => id \in auctions

\* C40: every process start that goes on to accept commands has first
\* loaded the still-open auctions of the event log into the live table,
\* with leader election enabled or not, so that an auction that was open
\* before the restart can be bid on and closed after it.
C40_StartLoadsOpenAuctions == [][OpensWithOpenAuctions]_vars

====
